---- MODULE Spec2Model ----
(***************************************************************************)
(* A model of gvm.language: the Grammar registry (tokens, patterns,        *)
(* parselet tables, extend/merge), the longest-match Scanner with its      *)
(* DefaultScanner variant, and the Packrat/Pratt Parser with the           *)
(* combinators it evaluates.                                               *)
(*                                                                         *)
(* Python values are records tagged by a field: symbols by cls, regular    *)
(* expressions and combinators and actions by kind, run-time values by     *)
(* type.  Python's None is the record NoneV.                               *)
(***************************************************************************)
EXTENDS Integers, Sequences, FiniteSets, TLC

VARIABLES grammars, last, scan, dscan, parse

vars == <<grammars, last, scan, dscan, parse>>

(***************************************************************************)
(* Bounds of the model.                                                    *)
(***************************************************************************)
MaxSymbols == 2      \* symbols registered per grammar beyond <EOF>, <ERROR>
MaxPatterns == 2     \* patterns registered in the grammar that is scanned
MaxExtPatterns == 1  \* patterns registered per grammar before an extend
MaxContent == 2      \* characters of source text given to a scanner
MaxTokens == 4       \* tokens of input given to the parser

(***************************************************************************)
(* Program constants.  sys.maxsize is only ever compared, never added to,  *)
(* so any value above every other priority of the model stands for it.     *)
(***************************************************************************)
PRIORITY_MAX == 2147483647
PRIORITY_MIN == 0

Range(s) == {s[i] : i \in 1..Len(s)}

NoneV == [type |-> "None"]

(***************************************************************************)
(* Symbols: SymbolID, TokenID, ParseletID.  Equality and hashing of a      *)
(* symbol use the class and the integer id alone.                          *)
(***************************************************************************)
TokenID(id, name, is_implicit) ==
    [cls |-> "TokenID", id |-> id, name |-> name, is_implicit |-> is_implicit,
     kind |-> "-", result_type |-> "-"]

ParseletID(id, name, kind, result_type) ==
    [cls |-> "ParseletID", id |-> id, name |-> name, is_implicit |-> FALSE,
     kind |-> kind, result_type |-> result_type]

NoSymbol == [cls |-> "None", id |-> 0, name |-> "", is_implicit |-> FALSE,
             kind |-> "-", result_type |-> "-"]

SymbolEq(a, b) == a.cls = b.cls /\ a.id = b.id

\* x in s, for a Python set (or list) s of symbols
SymbolIn(x, s) == \E y \in s : SymbolEq(x, y)

\* s.add(x) for a Python set of symbols: an equal member is kept as it is
SymbolSetAdd(s, x) == IF SymbolIn(x, s) THEN s ELSE s \cup {x}

(***************************************************************************)
(* Names and texts.  A string of the program is a TLA+ string; the texts   *)
(* the scanner reads are sequences of one-character strings, and CharsOf   *)
(* gives the characters of the literals the model registers.               *)
(***************************************************************************)
Chars == {"f", "o", "1"}

CharsOf(name) ==
    CASE name = "f" -> <<"f">>
      [] name = "fo" -> <<"f", "o">>
      [] name = "o" -> <<"o">>
      [] name = "**" -> <<"*", "*">>
      [] name = "Name" -> <<"N", "a", "m", "e">>
      [] name = "Word" -> <<"W", "o", "r", "d">>
      [] name = "Number" -> <<"N", "u", "m", "b", "e", "r">>
      [] name = "Whitespace" -> <<"W", "h", "i", "t", "e", "s", "p", "a", "c", "e">>
      [] name = "A+" -> <<"A", "+">>
      [] name = "expr" -> <<"e", "x", "p", "r">>
      [] name = "stmt" -> <<"s", "t", "m", "t">>
      [] name = "atom" -> <<"a", "t", "o", "m">>
      [] name = "fo-o" -> <<"f", "o", "-", "o">>
      [] name = "opt" -> <<"o", "p", "t">>
      [] name = "rep" -> <<"r", "e", "p">>
      [] name = "NewLine" -> <<"N", "e", "w", "L", "i", "n", "e">>
      [] name = "Indent" -> <<"I", "n", "d", "e", "n", "t">>
      [] name = "Dedend" -> <<"D", "e", "d", "e", "n", "d">>
      [] name = "Comment" -> <<"C", "o", "m", "m", "e", "n", "t">>
      [] name = "star" -> <<"s", "t", "a", "r">>
      [] name = "nest" -> <<"n", "e", "s", "t">>
      [] name = "ends" -> <<"e", "n", "d", "s">>
      [] OTHER -> <<name>>

Upper == {"A", "B", "C", "D", "E", "F", "G", "H", "I", "J", "K", "L", "M",
          "N", "O", "P", "Q", "R", "S", "T", "U", "V", "W", "X", "Y", "Z"}
Lower == {"a", "b", "c", "d", "e", "f", "g", "h", "i", "j", "k", "l", "m",
          "n", "o", "p", "q", "r", "s", "t", "u", "v", "w", "x", "y", "z"}
Digit == {"0", "1", "2", "3", "4", "5", "6", "7", "8", "9"}

\* the end of the longest prefix of chars made of one character of head and
\* then characters of tail, -1 when chars does not start with one of head:
\* what a compiled head[tail]* gives with match(name)
RECURSIVE PrefixEnd(_, _, _, _)
PrefixEnd(chars, head, tail, i) ==
    IF i = 0
    THEN IF Len(chars) > 0 /\ chars[1] \in head THEN PrefixEnd(chars, head, tail, 1) ELSE -1
    ELSE IF i < Len(chars) /\ chars[i + 1] \in tail
    THEN PrefixEnd(chars, head, tail, i + 1)
    ELSE i

\* RE_TOKEN.match(name): re.match anchors the start of the name only
RE_TOKEN_match(name) ==
    PrefixEnd(CharsOf(name), Upper, Upper \cup Lower \cup Digit, 0) >= 0

\* RE_PARSELET.match(name)
RE_PARSELET_match(name) ==
    PrefixEnd(CharsOf(name), Lower, Lower \cup Digit \cup {"_"}, 0) >= 0

(***************************************************************************)
(* Regular expressions, by what matching them does.  A regex is one of     *)
(*   lit(text)   the escaped literal text                                  *)
(*   plus(cs)    [cs]+  one or more characters of the class cs             *)
(*   star(cs)    [cs]*  zero or more characters of the class cs            *)
(* ReMatch is pattern.match(content, start): the end of the match, or -1   *)
(* for None.  Positions are Python's (0-based); content[i] of Python is    *)
(* content[i + 1] here.                                                    *)
(***************************************************************************)
ReLit(text) == [kind |-> "lit", text |-> text, cs |-> {}]
RePlus(cs) == [kind |-> "plus", text |-> <<>>, cs |-> cs]
ReStar(cs) == [kind |-> "star", text |-> <<>>, cs |-> cs]

\* re.escape(literal), compiled
ReEscape(literal) == ReLit(CharsOf(literal))

RECURSIVE RunEnd(_, _, _)
RunEnd(cs, content, start) ==
    IF start < Len(content) /\ content[start + 1] \in cs
    THEN RunEnd(cs, content, start + 1)
    ELSE start

ReMatch(regex, content, start) ==
    CASE regex.kind = "lit" ->
            IF /\ start + Len(regex.text) <= Len(content)
               /\ \A i \in 1..Len(regex.text) : content[start + i] = regex.text[i]
            THEN start + Len(regex.text) ELSE -1
      [] regex.kind = "plus" ->
            IF RunEnd(regex.cs, content, start) > start
            THEN RunEnd(regex.cs, content, start) ELSE -1
      [] regex.kind = "star" -> RunEnd(regex.cs, content, start)

(***************************************************************************)
(* SyntaxPattern.  Equality compares token_id (by class and id), the       *)
(* compiled pattern and the priority; ordering compares the priority.      *)
(***************************************************************************)
SyntaxPattern(token_id, regex, priority, is_implicit) ==
    [token_id |-> token_id, pattern |-> regex, priority |-> priority,
     is_implicit |-> is_implicit]

PatternEq(p, q) ==
    /\ SymbolEq(p.token_id, q.token_id)
    /\ p.pattern = q.pattern
    /\ p.priority = q.priority

\* the accessor read by Scanner.__match and by the tests as pattern.id
PatternId(p) == p.token_id

\* pattern in patterns, for a Python list
PatternIn(p, patterns) == \E i \in 1..Len(patterns) : PatternEq(p, patterns[i])

(***************************************************************************)
(* bisect.insort_right(a, x): binary search for the insertion point, then  *)
(* insertion.  Both element types kept in such lists, SyntaxPattern and    *)
(* Parselet, define __lt__ as the comparison of their priority.            *)
(***************************************************************************)
RECURSIVE BisectRight(_, _, _, _)
BisectRight(a, x, lo, hi) ==
    IF lo < hi
    THEN LET mid == (lo + hi) \div 2
         IN  IF x.priority < a[mid + 1].priority
             THEN BisectRight(a, x, lo, mid)
             ELSE BisectRight(a, x, mid + 1, hi)
    ELSE lo

InsertAt(a, i, x) == SubSeq(a, 1, i) \o <<x>> \o SubSeq(a, i + 1, Len(a))

\* insertion before the elements of equal priority, as bisect.insort_left
InsortLeft(a, x) ==
    InsertAt(a, Cardinality({i \in 1..Len(a) : a[i].priority < x.priority}), x)

InsortRight(a, x) == InsertAt(a, BisectRight(a, x, 0, Len(a)), x)

(***************************************************************************)
(* Grammar.  symbols is the insertion-ordered dict of all symbols (tokens  *)
(* and parselets are its sub-dicts), tables maps a parselet's id to its    *)
(* table, bracket_pairs is a dict kept as a set of <<key, value>> pairs.   *)
(* Every operation yields [g, ret, exc]: the grammar afterwards, the       *)
(* returned value and the exception raised ("None" when it returns).       *)
(***************************************************************************)
Returns(g, ret) == [g |-> g, ret |-> ret, exc |-> "None"]
Raises(g, exc) == [g |-> g, ret |-> NoSymbol, exc |-> exc]

Tokens(g) == SelectSeq(g.symbols, LAMBDA s : s.cls = "TokenID")
Parselets(g) == SelectSeq(g.symbols, LAMBDA s : s.cls = "ParseletID")

HasName(symbols, name) == \E i \in 1..Len(symbols) : symbols[i].name = name
ByName(symbols, name) == symbols[CHOOSE i \in 1..Len(symbols) : symbols[i].name = name]

\* the entry 'prefix_tokens' of a table's __dict__: absent until the cached
\* property is read
NoCache == [has |-> FALSE, value |-> {}]

\* PackratTable(parser_id), PrattTable(parser_id)
NewTable(parser_id) ==
    [kind |-> parser_id.kind, parser_id |-> parser_id, parselets |-> <<>>,
     prefixes |-> <<>>, postfixes |-> <<>>, cache |-> NoCache]

EmptyGrammar ==
    [symbols |-> <<>>, patterns |-> <<>>, tables |-> <<>>, trivia |-> {},
     brackets |-> {}, open_brackets |-> {}, close_brackets |-> {},
     bracket_pairs |-> {}]

\* add_token looking the name up among all symbols before the tokens: a
\* repeated registration is refused
add_token_symbols_first(g, name, is_implicit) ==
    IF ~is_implicit /\ ~RE_TOKEN_match(name)
    THEN Raises(g, "GrammarError")
    ELSE IF HasName(g.symbols, name)
    THEN Raises(g, "GrammarError")
    ELSE LET token_id == TokenID(Len(g.symbols) + 1, name, is_implicit)
         IN  Returns([g EXCEPT !.symbols = Append(@, token_id)], token_id)

add_token(g, name, is_implicit) ==
    IF ~is_implicit /\ ~RE_TOKEN_match(name)
    THEN Raises(g, "GrammarError")
    ELSE IF HasName(Tokens(g), name)
    THEN Returns(g, ByName(Tokens(g), name))
    ELSE IF HasName(g.symbols, name)
    THEN Raises(g, "GrammarError")
    ELSE LET token_id == TokenID(Len(g.symbols) + 1, name, is_implicit)
         IN  Returns([g EXCEPT !.symbols = Append(@, token_id)], token_id)

\* Grammar(): the two default tokens
NewGrammar ==
    add_token(add_token(EmptyGrammar, "<EOF>", TRUE).g, "<ERROR>", TRUE).g

add_pattern(g, token_id, regex, priority, is_implicit) ==
    Returns([g EXCEPT !.patterns =
                 InsortRight(@, SyntaxPattern(token_id, regex, priority, is_implicit))],
            token_id)

\* add_implicit registering the literal at the default priority
add_implicit_at_default(g, literal) ==
    LET t == add_token(g, literal, TRUE)
    IN  IF t.exc # "None" THEN t
        ELSE add_pattern(t.g, t.ret, ReEscape(literal), PRIORITY_MAX, TRUE)

add_implicit(g, literal) ==
    LET t == add_token(g, literal, TRUE)
    IN  IF t.exc # "None" THEN t
        ELSE add_pattern(t.g, t.ret, ReEscape(literal), -Len(CharsOf(literal)), TRUE)

add_trivia(g, token_id) ==
    Returns([g EXCEPT !.trivia = SymbolSetAdd(@, token_id)], NoSymbol)

PairEq(p, q) == SymbolEq(p[1], q[1]) /\ SymbolEq(p[2], q[2])

\* d[k] = v for a dict keyed by symbols: an equal key keeps its key object
DictSet(d, k, v) ==
    IF \E e \in d : SymbolEq(e[1], k)
    THEN {IF SymbolEq(e[1], k) THEN <<e[1], v>> ELSE e : e \in d}
    ELSE d \cup {<<k, v>>}

add_brackets(g, open_id, close_id) ==
    Returns([g EXCEPT
                !.brackets = IF \E e \in @ : PairEq(e, <<open_id, close_id>>)
                             THEN @ ELSE @ \cup {<<open_id, close_id>>},
                !.open_brackets = SymbolSetAdd(@, open_id),
                !.close_brackets = SymbolSetAdd(@, close_id),
                !.bracket_pairs = DictSet(@, open_id, close_id)],
            NoSymbol)

\* add_parselet comparing the kind of a registered parselet only
add_parselet_kind_only(g, name, result_type, kind) ==
    IF ~RE_PARSELET_match(name)
    THEN Raises(g, "GrammarError")
    ELSE IF HasName(Parselets(g), name)
    THEN LET parser_id == ByName(Parselets(g), name)
         IN  IF parser_id.kind # kind THEN Raises(g, "GrammarError")
             ELSE Returns(g, parser_id)
    ELSE IF HasName(g.symbols, name)
    THEN Raises(g, "GrammarError")
    ELSE LET parser_id == ParseletID(Len(g.symbols), name, kind, result_type)
         IN  Returns([g EXCEPT
                         !.symbols = Append(@, parser_id),
                         !.tables = [k \in DOMAIN @ \cup {parser_id.id} |->
                                        IF k = parser_id.id THEN NewTable(parser_id)
                                        ELSE @[k]]],
                     parser_id)

\* result_type "SyntaxNode" is the default the caller leaves out
add_parselet(g, name, result_type, kind) ==
    IF ~RE_PARSELET_match(name)
    THEN Raises(g, "GrammarError")
    ELSE IF HasName(Parselets(g), name)
    THEN LET parser_id == ByName(Parselets(g), name)
         IN  IF parser_id.kind # kind THEN Raises(g, "GrammarError")
             ELSE IF parser_id.result_type # result_type THEN Raises(g, "GrammarError")
             ELSE Returns(g, parser_id)
    ELSE IF HasName(g.symbols, name)
    THEN Raises(g, "GrammarError")
    ELSE LET parser_id == ParseletID(Len(g.symbols), name, kind, result_type)
         IN  Returns([g EXCEPT
                         !.symbols = Append(@, parser_id),
                         !.tables = [k \in DOMAIN @ \cup {parser_id.id} |->
                                        IF k = parser_id.id THEN NewTable(parser_id)
                                        ELSE @[k]]],
                     parser_id)

(***************************************************************************)
(* Types (gvm.typing): a scalar class, Optional[T] or Sequence[T].         *)
(***************************************************************************)
Scalar(name) == [t |-> "Scalar", name |-> name, arg |-> NoneV]
\* Optional[typ]; typing folds Optional[Optional[X]] into Optional[X]
OptionalT(typ) ==
    IF typ.t = "Optional" THEN typ ELSE [t |-> "Optional", name |-> "", arg |-> typ]
SequenceT(typ) == [t |-> "Sequence", name |-> "", arg |-> typ]
TypeErrorT == [t |-> "TypeError", name |-> "", arg |-> NoneV]

is_sequence_type(typ) == typ.t = "Sequence"
is_optional_type(typ) == typ.t = "Optional"

unpack_type_argument(typ) ==
    IF is_optional_type(typ) \/ is_sequence_type(typ) THEN typ.arg ELSE typ

\* raises TypeError (the value TypeErrorT) when the unpacked types differ
merge_sequence_type(lhs, rhs) ==
    IF unpack_type_argument(lhs) # unpack_type_argument(rhs)
    THEN TypeErrorT
    ELSE SequenceT(unpack_type_argument(lhs))

\* a make_sequence_type that wraps the type as it is
make_sequence_type_nested(typ) == SequenceT(typ)

make_sequence_type(typ) == SequenceT(unpack_type_argument(typ))

make_optional_type(typ) ==
    IF is_sequence_type(typ) \/ is_optional_type(typ) THEN typ ELSE OptionalT(typ)

\* issubclass on the classes of the model: every class derives from object
issubclass(lhs, rhs) == lhs.name = rhs.name \/ rhs.name = "object"

RECURSIVE is_subclass(_, _)
is_subclass(lhs, rhs) ==
    IF is_sequence_type(lhs)
    THEN IF ~is_sequence_type(rhs) THEN FALSE
         ELSE is_subclass(unpack_type_argument(lhs), unpack_type_argument(rhs))
    ELSE IF is_optional_type(lhs)
    THEN IF ~is_optional_type(rhs) THEN FALSE
         ELSE is_subclass(unpack_type_argument(lhs), unpack_type_argument(rhs))
    ELSE rhs.t = "Scalar" /\ issubclass(lhs, rhs)

(***************************************************************************)
(* Combinators.  priority of a ParseletCombinator is optional:             *)
(* has_priority tells whether one was given.                               *)
(***************************************************************************)
TokenCombinator(token_id) ==
    [kind |-> "Token", token_id |-> token_id]
ParseletCombinator(parser_id, has_priority, priority) ==
    [kind |-> "Parselet", parser_id |-> parser_id,
     has_priority |-> has_priority, priority |-> priority]
SequenceCombinator(combinators) ==
    [kind |-> "Sequence", combinators |-> combinators]
PostfixCombinator(combinators) ==
    [kind |-> "Postfix", combinators |-> combinators]
NamedCombinator(combinator, name) ==
    [kind |-> "Named", combinator |-> combinator, name |-> name]
OptionalCombinator(combinator) ==
    [kind |-> "Optional", combinator |-> combinator]
RepeatCombinator(combinator) ==
    [kind |-> "Repeat", combinator |-> combinator]

\* isinstance(c, SequenceCombinator): PostfixCombinator is a subclass
IsSequenceCombinator(c) == c.kind \in {"Sequence", "Postfix"}

RECURSIVE result_type(_)
result_type(c) ==
    CASE c.kind = "Token" -> Scalar("SyntaxToken")
      [] c.kind = "Parselet" -> Scalar(c.parser_id.result_type)
      [] IsSequenceCombinator(c) -> result_type(c.combinators[Len(c.combinators)])
      [] c.kind = "Named" -> result_type(c.combinator)
      [] c.kind = "Optional" -> OptionalT(result_type(c.combinator))
      [] c.kind = "Repeat" -> SequenceT(result_type(c.combinator))

\* a dict {name: value} as a function on the names
EmptyDict == [n \in {} |-> NoneV]
DictPut(d, n, v) == [k \in DOMAIN d \cup {n} |-> IF k = n THEN v ELSE d[k]]

RECURSIVE variables(_)
RECURSIVE SequenceVariables(_, _, _)

\* the loop of SequenceCombinator.variables over the children from i on
SequenceVariables(combinators, i, acc) ==
    IF i > Len(combinators) THEN acc
    ELSE LET nested == variables(combinators[i])
         IN  SequenceVariables(combinators, i + 1,
                 [n \in DOMAIN acc \cup DOMAIN nested |->
                     IF n \notin DOMAIN nested THEN acc[n]
                     ELSE IF n \notin DOMAIN acc THEN nested[n]
                     ELSE merge_sequence_type(acc[n], nested[n])])

variables(c) ==
    CASE c.kind \in {"Token", "Parselet"} -> EmptyDict
      [] IsSequenceCombinator(c) -> SequenceVariables(c.combinators, 1, EmptyDict)
      [] c.kind = "Named" -> DictPut(EmptyDict, c.name, result_type(c.combinator))
      [] c.kind = "Optional" ->
            LET nested == variables(c.combinator)
            IN  [n \in DOMAIN nested |-> make_optional_type(nested[n])]
      [] c.kind = "Repeat" ->
            LET nested == variables(c.combinator)
            IN  [n \in DOMAIN nested |-> make_sequence_type(nested[n])]

(***************************************************************************)
(* Actions and parselets.                                                  *)
(***************************************************************************)
NoFunctor == [fn |-> "", op |-> ""]

ReturnResultAction(typ) ==
    [kind |-> "ReturnResult", name |-> "", functor |-> NoFunctor, result_type |-> typ]
ReturnVariableAction(name, typ) ==
    [kind |-> "ReturnVariable", name |-> name, functor |-> NoFunctor, result_type |-> typ]
CallAction(functor, typ) ==
    [kind |-> "Call", name |-> "", functor |-> functor, result_type |-> typ]

\* the generator make_return_result()
make_return_result(combinator) == ReturnResultAction(result_type(combinator))

PrefixParselet(parser_id, combinator, action, priority) ==
    [shape |-> "Prefix", parser_id |-> parser_id, combinator |-> combinator,
     action |-> action, priority |-> priority]
PostfixParselet(parser_id, combinator, action, priority) ==
    [shape |-> "Postfix", parser_id |-> parser_id, combinator |-> combinator,
     action |-> action, priority |-> priority]

(***************************************************************************)
(* Parselet tables.  prefixes and postfixes are defaultdicts from a        *)
(* token's id to a priority-sorted list; DictGet is dict.get(key, ()).     *)
(* A table operation yields [table, exc].                                  *)
(***************************************************************************)
DictGet(d, k) == IF k \in DOMAIN d THEN d[k] ELSE <<>>

DictInsort(d, k, x) ==
    [j \in DOMAIN d \cup {k} |-> IF j = k THEN InsortRight(DictGet(d, k), x) ELSE d[j]]

Unnamed(c) == IF c.kind = "Named" THEN c.combinator ELSE c

\* __add_prefix without the cleanup of the prefix tokens cache
PrattAddPrefixKeepCache(table, token_id, combinator, action, priority) ==
    LET parselet == PrefixParselet(table.parser_id, combinator, action, priority)
    IN  [table |-> [table EXCEPT
                       !.prefixes = DictInsort(@, token_id.id, parselet),
                       !.parselets = InsortRight(@, parselet)],
         exc |-> "None"]

PrattAddPrefix(table, token_id, combinator, action, priority) ==
    LET parselet == PrefixParselet(table.parser_id, combinator, action, priority)
    IN  [table |-> [table EXCEPT
                       !.prefixes = DictInsort(@, token_id.id, parselet),
                       !.parselets = InsortRight(@, parselet),
                       !.cache = NoCache],
         exc |-> "None"]

PrattAddPostfix(table, token_id, combinator, action, priority) ==
    LET parselet == PostfixParselet(table.parser_id,
                        PostfixCombinator(combinator.combinators), action, priority)
    IN  [table |-> [table EXCEPT
                       !.postfixes = DictInsort(@, token_id.id, parselet),
                       !.parselets = InsortRight(@, parselet)],
         exc |-> "None"]

\* add_parser taking a reference to any parselet for the head of a postfix
\* rule
PrattAddParserAnyHead(table, combinator, action, priority) ==
    LET fail == [table |-> table, exc |-> "GrammarError"]
    IN  IF IsSequenceCombinator(combinator)
        THEN LET front == Unnamed(combinator.combinators[1])
             IN  IF front.kind = "Token"
                 THEN PrattAddPrefix(table, front.token_id, combinator, action, priority)
                 ELSE IF /\ front.kind = "Parselet"
                         /\ Len(combinator.combinators) > 1
                         /\ Unnamed(combinator.combinators[2]).kind = "Token"
                 THEN PrattAddPostfix(table, Unnamed(combinator.combinators[2]).token_id,
                                      combinator, action, priority)
                 ELSE fail
        ELSE IF Unnamed(combinator).kind = "Token"
        THEN PrattAddPrefix(table, Unnamed(combinator).token_id, combinator, action, priority)
        ELSE fail

PrattAddParser(table, combinator, action, priority) ==
    LET fail == [table |-> table, exc |-> "GrammarError"]
    IN  IF IsSequenceCombinator(combinator)
        THEN LET front == Unnamed(combinator.combinators[1])
             IN  IF front.kind = "Token"
                 THEN PrattAddPrefix(table, front.token_id, combinator, action, priority)
                 ELSE IF /\ front.kind = "Parselet"
                         /\ SymbolEq(front.parser_id, table.parser_id)
                         /\ Len(combinator.combinators) > 1
                         /\ Unnamed(combinator.combinators[2]).kind = "Token"
                 THEN PrattAddPostfix(table, Unnamed(combinator.combinators[2]).token_id,
                                      combinator, action, priority)
                 ELSE fail
        ELSE IF Unnamed(combinator).kind = "Token"
        THEN PrattAddPrefix(table, Unnamed(combinator).token_id, combinator, action, priority)
        ELSE fail

PackratAddParser(table, combinator, action, priority) ==
    [table |-> [table EXCEPT !.parselets =
                   InsortRight(@, PrefixParselet(table.parser_id, combinator, action, priority))],
     exc |-> "None"]

TableAddParser(table, combinator, action, priority) ==
    IF table.kind = "Pratt"
    THEN PrattAddParser(table, combinator, action, priority)
    ELSE PackratAddParser(table, combinator, action, priority)

\* Grammar.add_parser with a ParseletID and a Combinator; action is what the
\* generator made of the combinator
add_parser(g, parser_id, combinator, action, priority) ==
    IF ~is_subclass(action.result_type, Scalar(parser_id.result_type))
    THEN Raises(g, "GrammarError")
    ELSE LET r == TableAddParser(g.tables[parser_id.id], combinator, action, priority)
         IN  IF r.exc # "None" THEN Raises(g, r.exc)
             ELSE Returns([g EXCEPT !.tables[parser_id.id] = r.table], parser_id)

(***************************************************************************)
(* Grammar.extend.  symbols, the correspondence dict of extend, is kept as *)
(* the sequence of its <<key, value>> assignments; a lookup finds the last *)
(* assignment to an equal key.  The steps run in the order of the code and *)
(* an exception leaves the grammar as the steps before it made it.         *)
(***************************************************************************)
CorrHas(corr, key) == \E i \in 1..Len(corr) : SymbolEq(corr[i][1], key)

CorrGet(corr, key) ==
    corr[CHOOSE i \in 1..Len(corr) :
            /\ SymbolEq(corr[i][1], key)
            /\ \A j \in (i + 1)..Len(corr) : ~SymbolEq(corr[j][1], key)][2]

\* the loops "merge tokens" and "merge parsers": syms lists other's tokens,
\* then other's parselets
RECURSIVE ExtendSymbols(_, _, _, _)
ExtendSymbols(self, syms, i, corr) ==
    IF i > Len(syms) THEN [g |-> self, corr |-> corr, exc |-> "None"]
    ELSE LET sym == syms[i]
             r == IF sym.cls = "TokenID"
                  THEN add_token(self, sym.name, sym.is_implicit)
                  ELSE add_parselet(self, sym.name, "SyntaxNode", sym.kind)
         IN  IF r.exc # "None" THEN [g |-> r.g, corr |-> corr, exc |-> r.exc]
             ELSE ExtendSymbols(r.g, syms, i + 1, Append(corr, <<sym, r.ret>>))

\* the loop "merge trivia"; KeyError when a trivia token has no entry
RECURSIVE ExtendTrivia(_, _, _)
ExtendTrivia(self, todo, corr) ==
    IF todo = {} THEN Returns(self, NoSymbol)
    ELSE LET token_id == CHOOSE t \in todo : TRUE
         IN  IF ~CorrHas(corr, token_id) THEN Raises(self, "KeyError")
             ELSE ExtendTrivia(add_trivia(self, CorrGet(corr, token_id)).g,
                               todo \ {token_id}, corr)

\* the loop "merge brackets": the pairs are added as other holds them
RECURSIVE ExtendBrackets(_, _)
ExtendBrackets(self, todo) ==
    IF todo = {} THEN self
    ELSE LET pair == CHOOSE e \in todo : TRUE
         IN  ExtendBrackets(add_brackets(self, pair[1], pair[2]).g, todo \ {pair})

\* the loop "merge token patterns"
RECURSIVE ExtendPatterns(_, _, _, _)
ExtendPatterns(self, patterns, i, corr) ==
    IF i > Len(patterns) THEN Returns(self, NoSymbol)
    ELSE LET pattern == patterns[i]
         IN  IF PatternIn(pattern, self.patterns)
             THEN ExtendPatterns(self, patterns, i + 1, corr)
             ELSE IF ~CorrHas(corr, pattern.token_id) THEN Raises(self, "KeyError")
             ELSE ExtendPatterns(
                      [self EXCEPT !.patterns = InsortRight(@,
                          SyntaxPattern(CorrGet(corr, pattern.token_id), pattern.pattern,
                                        pattern.priority, pattern.is_implicit))],
                      patterns, i + 1, corr)

\* combinator.clone(symbols): the combinator with every TokenID and
\* ParseletID replaced by the symbol the correspondence dict gives for it
RECURSIVE Clone(_, _)
Clone(c, corr) ==
    CASE c.kind = "Token" -> [c EXCEPT !.token_id = CorrGet(corr, @)]
      [] c.kind = "Parselet" -> [c EXCEPT !.parser_id = CorrGet(corr, @)]
      [] IsSequenceCombinator(c) ->
            [c EXCEPT !.combinators = [i \in 1..Len(@) |-> Clone(@[i], corr)]]
      [] OTHER -> [c EXCEPT !.combinator = Clone(@, corr)]

\* the inner loop of "merge parser tables" over the parselets of one table
RECURSIVE ExtendParselets(_, _, _, _, _)
ExtendParselets(self, parser_id, parselets, i, corr) ==
    IF i > Len(parselets) THEN Returns(self, NoSymbol)
    ELSE LET parselet == parselets[i]
             r == TableAddParser(self.tables[parser_id.id], Clone(parselet.combinator, corr),
                                 parselet.action, parselet.priority)
         IN  IF r.exc # "None" THEN Raises(self, r.exc)
             ELSE ExtendParselets([self EXCEPT !.tables[parser_id.id] = r.table],
                                  parser_id, parselets, i + 1, corr)

\* the loop "merge parser tables" over the tables of other from the i-th on,
\* in the order in which other registered their parselets
RECURSIVE ExtendTablesFrom(_, _, _, _)
ExtendTablesFrom(self, other, i, corr) ==
    IF i > Len(Parselets(other)) THEN Returns(self, NoSymbol)
    ELSE LET table == other.tables[Parselets(other)[i].id]
             r == ExtendParselets(self, CorrGet(corr, table.parser_id), table.parselets,
                                  1, corr)
         IN  IF r.exc # "None" THEN r ELSE ExtendTablesFrom(r.g, other, i + 1, corr)

\* "merge parser tables" registering nothing
ExtendNoTables(self, other, corr) == Returns(self, NoSymbol)

ExtendTables(self, other, corr) == ExtendTablesFrom(self, other, 1, corr)

extend(self, other) ==
    LET s1 == ExtendSymbols(self, Tokens(other) \o Parselets(other), 1, <<>>)
        s2 == ExtendTrivia(s1.g, other.trivia, s1.corr)
        s3 == ExtendBrackets(s2.g, other.brackets)
        s4 == ExtendPatterns(s3, other.patterns, 1, s1.corr)
        s5 == ExtendTables(s4.g, other, s1.corr)
    IN  IF s1.exc # "None" THEN Raises(s1.g, s1.exc)
        ELSE IF s2.exc # "None" THEN s2
        ELSE IF s4.exc # "None" THEN s4
        ELSE s5

\* Grammar.merge(*grammars): a fresh grammar extended by each in turn
RECURSIVE MergeFrom(_, _, _)
MergeFrom(result, gs, i) ==
    IF i > Len(gs) THEN Returns(result, NoSymbol)
    ELSE LET r == extend(result, gs[i])
         IN  IF r.exc # "None" THEN r ELSE MergeFrom(r.g, gs, i + 1)

merge(gs) == MergeFrom(NewGrammar, gs, 1)

(***************************************************************************)
(* Scanner.  A scanner is [position, buffer, length, out, status]: out is  *)
(* the tokens its tokenize() has yielded so far, starts the cursor         *)
(* position at which each of them was matched, status is "running" until   *)
(* the generator returns ("done") or an exception leaves it.               *)
(* Locations are left out: no token id or value depends on them.           *)
(***************************************************************************)
SyntaxToken(id, value) == [id |-> id, value |-> value]

NoScanner ==
    [position |-> 0, buffer |-> <<>>, length |-> 0, out |-> <<>>, starts |-> <<>>,
     status |-> "none"]

\* Scanner.__init__
NewScanner(content) ==
    [position |-> 0, buffer |-> content, length |-> Len(content), out |-> <<>>,
     starts |-> <<>>, status |-> "running"]

eof_id(g) == ByName(Tokens(g), "<EOF>")
error_id(g) == ByName(Tokens(g), "<ERROR>")

\* results of __match: the indexes, in list order, of the patterns that match
MatchResults(g, sc) ==
    SelectSeq([i \in 1..Len(g.patterns) |-> i],
              LAMBDA i : ReMatch(g.patterns[i].pattern, sc.buffer, sc.position) >= 0)

MatchEnd(g, sc, i) == ReMatch(g.patterns[i].pattern, sc.buffer, sc.position)

\* max(match.end() for _, match in results)
MaxPosition(g, sc) ==
    CHOOSE m \in {MatchEnd(g, sc, i) : i \in Range(MatchResults(g, sc))} :
        \A i \in Range(MatchResults(g, sc)) : MatchEnd(g, sc, i) <= m

\* next(... for token_id, match in results if match.end() == max_position),
\* with the last such result instead of the first
SelectLast(g, sc) ==
    LET results == MatchResults(g, sc)
    IN  results[CHOOSE k \in 1..Len(results) :
                   /\ MatchEnd(g, sc, results[k]) = MaxPosition(g, sc)
                   /\ \A j \in (k + 1)..Len(results) :
                          MatchEnd(g, sc, results[j]) # MaxPosition(g, sc)]

\* next(... for token_id, match in results if match.end() == max_position)
SelectMatch(g, sc) ==
    LET results == MatchResults(g, sc)
    IN  results[CHOOSE k \in 1..Len(results) :
                   /\ MatchEnd(g, sc, results[k]) = MaxPosition(g, sc)
                   /\ \A j \in 1..(k - 1) :
                          MatchEnd(g, sc, results[j]) # MaxPosition(g, sc)]

\* Scanner.__match: [position, token, exc].  __consume_location reads
\* value[-1], an IndexError for the empty value of an empty match.
ScannerMatch(g, sc) ==
    LET matched == MatchResults(g, sc) # <<>>
        value == IF matched
                 THEN SubSeq(sc.buffer, sc.position + 1, MaxPosition(g, sc))
                 ELSE <<sc.buffer[sc.position + 1]>>
        token_id == IF matched THEN PatternId(g.patterns[SelectMatch(g, sc)])
                    ELSE error_id(g)
        position == (IF matched THEN sc.position ELSE sc.position + 1) + Len(value)
    IN  [position |-> position, token |-> SyntaxToken(token_id, value),
         exc |-> IF value = <<>> THEN "IndexError" ELSE "None"]

\* one resumption of the generator Scanner.tokenize: [sc, token, exc], where
\* token is the token yielded ("done" once the <EOF> token has been yielded)
ScannerTokenize(g, sc) ==
    IF sc.position < sc.length
    THEN LET m == ScannerMatch(g, sc)
         IN  IF m.exc # "None"
             THEN [sc |-> [sc EXCEPT !.position = m.position, !.status = m.exc],
                   token |-> m.token, exc |-> m.exc]
             ELSE [sc |-> [sc EXCEPT !.position = m.position], token |-> m.token,
                   exc |-> "None"]
    ELSE [sc |-> [sc EXCEPT !.status = "done"],
          token |-> SyntaxToken(eof_id(g), <<>>), exc |-> "None"]

\* the filter of DefaultScanner.tokenize, dropping every token but trivia
YieldsTrivia(g, token) == SymbolIn(token.id, g.trivia)

\* the filter of DefaultScanner.tokenize
DefaultYields(g, token) == ~SymbolIn(token.id, g.trivia)

(***************************************************************************)
(* Run-time values: a token, a string (its characters), a tuple or a list  *)
(* (its items), or None.                                                   *)
(***************************************************************************)
TokenV(id, value, location) ==
    [type |-> "Token", id |-> id, value |-> value, location |-> location]
StrV(chars) == [type |-> "Str", items |-> chars]
TupleV(items) == [type |-> "Tuple", items |-> items]
ListV(items) == [type |-> "List", items |-> items]

IsIterable(v) == v.type \in {"Str", "Tuple", "List"}

\* the items [*v] unpacks; the items of a string are its characters
Unpack(v) ==
    IF v.type = "Str" THEN [i \in 1..Len(v.items) |-> StrV(<<v.items[i]>>)]
    ELSE v.items

(***************************************************************************)
(* ParserError and ParserError.merge.  A location is the index of its      *)
(* token in the token stream: the scanner's locations grow with it.        *)
(***************************************************************************)
ParserError(location, actual_token, expected_tokens) ==
    [type |-> "ParserError", location |-> location, actual_token |-> actual_token,
     expected_tokens |-> expected_tokens]

\* a merge that keeps the error it met first
ErrorMerge_first(lhs, rhs) ==
    IF lhs = NoneV THEN rhs ELSE lhs

ErrorMerge(lhs, rhs) ==
    IF lhs = NoneV THEN rhs
    ELSE IF rhs = NoneV THEN lhs
    ELSE IF lhs.location < rhs.location THEN rhs
    ELSE IF lhs.location = rhs.location
    THEN ParserError(lhs.location, lhs.actual_token,
                     lhs.expected_tokens \cup rhs.expected_tokens)
    ELSE lhs

(***************************************************************************)
(* Parser.  The state of a parser is st = [pos, buffered, memory, calls]:  *)
(* the cursor __position, the length of the token buffer __tokens, the     *)
(* memo __memory as a function on the keys <<position, parselet id>>, and  *)
(* the number of times each key's table was run.  env = [g, tokens] is the *)
(* grammar and the whole stream the scanner would yield.  A call yields an *)
(* outcome [exc, result, namespace, error, st]; exc is "None" when it      *)
(* returns, else the class of the exception raised, and error is then the  *)
(* ParserError raised.                                                     *)
(***************************************************************************)
NewParser == [pos |-> 0, buffered |-> 0, memory |-> <<>>, calls |-> <<>>]

Ok(result, namespace, error, st) ==
    [exc |-> "None", result |-> result, namespace |-> namespace, error |-> error,
     st |-> st]

Raise(exc, error, st) ==
    [exc |-> exc, result |-> NoneV, namespace |-> EmptyDict, error |-> error, st |-> st]

current_token(env, st) == env.tokens[st.pos + 1]

\* an advance that steps over <EOF> as over any other token
Parser_advance_past_eof(env, st) ==
    [st EXCEPT !.pos = @ + 1,
               !.buffered = IF @ < st.pos + 2 THEN st.pos + 2 ELSE @]

\* Parser.advance
Parser_advance(env, st) ==
    IF ~SymbolEq(current_token(env, st).id, eof_id(env.g))
    THEN [st EXCEPT !.pos = @ + 1,
                    !.buffered = IF @ < st.pos + 2 THEN st.pos + 2 ELSE @]
    ELSE st

\* Parser.error
Parser_error(env, st, indexes) ==
    ParserError(current_token(env, st).location, current_token(env, st).id, indexes)

\* Parser.consume
Parser_consume(env, st, index) ==
    IF SymbolEq(current_token(env, st).id, index)
    THEN Ok(current_token(env, st), EmptyDict, NoneV, Parser_advance(env, st))
    ELSE Raise("ParserError", Parser_error(env, st, {index}), st)

\* namespace[name] = [*namespace[name], *value] if name in namespace else value,
\* for every name of last_namespace; [exc, namespace]
NamespaceJoin(namespace, last_namespace) ==
    IF \E n \in DOMAIN namespace \cap DOMAIN last_namespace :
           ~IsIterable(namespace[n]) \/ ~IsIterable(last_namespace[n])
    THEN [exc |-> "TypeError", namespace |-> namespace]
    ELSE [exc |-> "None",
          namespace |-> [n \in DOMAIN namespace \cup DOMAIN last_namespace |->
              IF n \notin DOMAIN last_namespace THEN namespace[n]
              ELSE IF n \notin DOMAIN namespace THEN last_namespace[n]
              ELSE ListV(Unpack(namespace[n]) \o Unpack(last_namespace[n]))]]

\* NamedCombinator.make_namespace
make_namespace(c, context, result) ==
    IF is_sequence_type(result_type(c.combinator))
    THEN DictPut(EmptyDict, c.name, result)
    ELSE IF is_sequence_type(variables(context.combinator)[c.name])
    THEN DictPut(EmptyDict, c.name, TupleV(<<result>>))
    ELSE DictPut(EmptyDict, c.name, result)

make_default_mutable_value(typ) ==
    IF is_sequence_type(typ) THEN ListV(<<>>) ELSE NoneV

\* Parselet.merge_namespace: [exc, namespace]
merge_namespace(parselet, namespace) ==
    LET vs == variables(parselet.combinator)
    IN  IF \E n \in DOMAIN vs \cap DOMAIN namespace :
               is_sequence_type(vs[n]) /\ ~IsIterable(namespace[n])
        THEN [exc |-> "TypeError", namespace |-> namespace]
        ELSE [exc |-> "None",
              namespace |-> [n \in DOMAIN vs |->
                  IF n \notin DOMAIN namespace THEN make_default_mutable_value(vs[n])
                  ELSE IF is_sequence_type(vs[n]) THEN TupleV(Unpack(namespace[n]))
                  ELSE namespace[n]]]

(***************************************************************************)
(* Actions applied.  A functor is [fn, op]: the lambdas the grammars of    *)
(* the model give to make_call.                                            *)
(*   value   lambda value: value.value                                     *)
(*   unary   lambda value: (op, value)                                     *)
(*   binary  lambda lhs, rhs: (lhs, op, rhs)                               *)
(*   items   lambda items: items                                           *)
(* A call yields [exc, value]; keyword arguments that are not exactly the  *)
(* parameters raise TypeError.                                             *)
(***************************************************************************)
Functor(fn, op) == [fn |-> fn, op |-> op]

FunctorParams(functor) ==
    IF functor.fn = "binary" THEN {"lhs", "rhs"}
    ELSE IF functor.fn = "items" THEN {"items"} ELSE {"value"}

CallFunctor(functor, namespace) ==
    IF DOMAIN namespace # FunctorParams(functor)
    THEN [exc |-> "TypeError", value |-> NoneV]
    ELSE CASE functor.fn = "value" ->
                 IF namespace["value"].type = "Token"
                 THEN [exc |-> "None", value |-> StrV(namespace["value"].value)]
                 ELSE [exc |-> "AttributeError", value |-> NoneV]
           [] functor.fn = "unary" ->
                 [exc |-> "None",
                  value |-> TupleV(<<StrV(CharsOf(functor.op)), namespace["value"]>>)]
           [] functor.fn = "binary" ->
                 [exc |-> "None",
                  value |-> TupleV(<<namespace["lhs"], StrV(CharsOf(functor.op)),
                                     namespace["rhs"]>>)]
           [] functor.fn = "items" -> [exc |-> "None", value |-> namespace["items"]]

\* action(result, namespace)
ApplyAction(action, result, namespace) ==
    CASE action.kind = "ReturnResult" -> [exc |-> "None", value |-> result]
      [] action.kind = "ReturnVariable" ->
            IF action.name \in DOMAIN namespace
            THEN [exc |-> "None", value |-> namespace[action.name]]
            ELSE [exc |-> "KeyError", value |-> NoneV]
      [] action.kind = "Call" -> CallFunctor(action.functor, namespace)

(***************************************************************************)
(* Evaluation: combinators, parselets, tables, Parser.parselet and         *)
(* Parser.choice call one another.                                         *)
(***************************************************************************)
\* itertools.takewhile(lambda parselet: priority < parselet.priority, parselets)
TakeWhileLe(parselets, priority) ==
    LET stops == {i \in 1..Len(parselets) : ~(priority <= parselets[i].priority)}
    IN  IF stops = {} THEN parselets
        ELSE SubSeq(parselets, 1, (CHOOSE i \in stops : \A j \in stops : i <= j) - 1)

TakeWhile(parselets, priority) ==
    LET stops == {i \in 1..Len(parselets) : ~(priority < parselets[i].priority)}
    IN  IF stops = {} THEN parselets
        ELSE SubSeq(parselets, 1, (CHOOSE i \in stops : \A j \in stops : i <= j) - 1)

\* prefix_tokens naming only the key of prefixes with the least id
least_prefix_token(table) ==
    {Unnamed(IF IsSequenceCombinator(table.prefixes[k][1].combinator)
             THEN table.prefixes[k][1].combinator.combinators[1]
             ELSE table.prefixes[k][1].combinator).token_id :
        k \in {j \in DOMAIN table.prefixes : \A i \in DOMAIN table.prefixes : j <= i}}

\* PrattTable.prefix_tokens: the keys of prefixes
prefix_tokens(table) ==
    {Unnamed(IF IsSequenceCombinator(table.prefixes[k][1].combinator)
             THEN table.prefixes[k][1].combinator.combinators[1]
             ELSE table.prefixes[k][1].combinator).token_id : k \in DOMAIN table.prefixes}

\* the attribute table.prefix_tokens: the entry of __dict__ when there is
\* one, else cached_property.__get__, which computes the value and stores it
GetPrefixTokens(table) ==
    IF table.cache.has THEN [table |-> table, ret |-> table.cache.value]
    ELSE LET result == prefix_tokens(table)
         IN  [table |-> [table EXCEPT !.cache = [has |-> TRUE, value |-> result]],
              ret |-> result]

MemoKey(st, parser_id) == <<st.pos, parser_id.id>>

Count(calls, key) == IF key \in DOMAIN calls THEN calls[key] ELSE 0

(***************************************************************************)
(* Evaluation, one step at a time.  A parse in progress is a machine       *)
(* m = [st, stack, out]: the parser's state, the stack of the calls that   *)
(* are under way (the last is the innermost) and the outcome the call      *)
(* that just ended hands to its caller (NoOut while a call is entered).    *)
(* A frame is one call: k says of what, phase where it stands, the other   *)
(* fields are its arguments and locals.                                    *)
(***************************************************************************)
NoOut == [exc |-> "-", result |-> NoneV, namespace |-> EmptyDict, error |-> NoneV]

Out(r) == [exc |-> r.exc, result |-> r.result, namespace |-> r.namespace,
           error |-> r.error]

NoAcc == [result |-> NoneV, namespace |-> EmptyDict, error |-> NoneV, items |-> <<>>]

Frame(k) ==
    [k |-> k, phase |-> "enter", c |-> NoneV, ctx |-> NoneV, items |-> <<>>, i |-> 0,
     acc |-> NoAcc, pos |-> 0, parser_id |-> NoSymbol, priority |-> 0,
     has_left |-> FALSE, left |-> NoneV, err |-> NoneV]

CombineFrame(c, ctx) == [Frame("combinator") EXCEPT !.c = c, !.ctx = ctx]
SequenceFrame(combinators, i, ctx) ==
    [Frame("sequence") EXCEPT !.items = combinators, !.i = i, !.ctx = ctx]
ParseletFrame(parser_id, priority) ==
    [Frame("parselet") EXCEPT !.parser_id = parser_id, !.priority = priority]
TableFrame(parser_id, priority) ==
    [Frame("table") EXCEPT !.parser_id = parser_id, !.priority = priority]
ChoiceFrame(parselets, has_left, left) ==
    [Frame("choice") EXCEPT !.items = parselets, !.i = 1, !.has_left = has_left,
                            !.left = left]
CallFrame(p, has_left, left) ==
    [Frame("call") EXCEPT !.ctx = p, !.has_left = has_left, !.left = left]
ParseFrame(parser_id) == [Frame("parse") EXCEPT !.parser_id = parser_id]

NewMachine(parser_id) ==
    [st |-> NewParser, stack |-> <<ParseFrame(parser_id)>>, out |-> NoOut]

Top(m) == m.stack[Len(m.stack)]

\* the innermost call ends with the outcome r (which carries the state)
Return(m, r) ==
    [st |-> r.st, stack |-> SubSeq(m.stack, 1, Len(m.stack) - 1), out |-> Out(r)]

\* the innermost call ends by handing on the outcome it was given
Pass(m) == [m EXCEPT !.stack = SubSeq(@, 1, Len(@) - 1)]

\* the innermost call goes on as frame f
Goto(m, f) ==
    [m EXCEPT !.stack = [@ EXCEPT ![Len(@)] = f], !.out = NoOut]

\* the innermost call, now frame f, calls child and waits for its outcome
Invoke(m, f, child) ==
    [m EXCEPT !.stack = Append([@ EXCEPT ![Len(@)] = f], child), !.out = NoOut]

\* combinator(parser, context): TokenCombinator and ParseletCombinator are
\* done here, the others go on in Combinator_return
Combinator_call(env, m, f) ==
    CASE f.c.kind = "Token" -> Return(m, Parser_consume(env, m.st, f.c.token_id))
      [] f.c.kind = "Parselet" ->
            Invoke(m, [f EXCEPT !.phase = "wait"],
                   ParseletFrame(f.c.parser_id,
                                 IF f.c.has_priority THEN f.c.priority ELSE 0))
      [] f.c.kind = "Sequence" -> Goto(m, SequenceFrame(f.c.combinators, 1, f.ctx))
      [] f.c.kind = "Postfix" -> Goto(m, SequenceFrame(f.c.combinators, 2, f.ctx))
      [] f.c.kind = "Named" ->
            Invoke(m, [f EXCEPT !.phase = "wait"], CombineFrame(f.c.combinator, f.ctx))
      [] f.c.kind = "Optional" ->
            \* f.pos is the position parser.backtrack() keeps
            Invoke(m, [f EXCEPT !.phase = "wait", !.pos = m.st.pos],
                   CombineFrame(f.c.combinator, f.ctx))
      [] f.c.kind = "Repeat" ->
            Invoke(m, [f EXCEPT !.phase = "wait", !.pos = m.st.pos],
                   CombineFrame(f.c.combinator, f.ctx))

\* a RepeatCombinator that leaves the cursor where its last iteration failed
Combinator_return_no_backtrack(env, m, f) ==
    CASE f.c.kind = "Parselet" ->
            \* result, error = parser.parselet(...); return result, {}, error
            IF m.out.exc # "None" THEN Pass(m)
            ELSE Return(m, Ok(m.out.result, EmptyDict, m.out.error, m.st))
      [] f.c.kind = "Named" ->
            IF m.out.exc # "None" THEN Pass(m)
            ELSE Return(m, Ok(m.out.result, make_namespace(f.c, f.ctx, m.out.result),
                              m.out.error, m.st))
      [] f.c.kind = "Optional" ->
            \* the ParserError is caught inside the with block: backtrack
            \* never sees it and the cursor stays where the failure left it
            IF m.out.exc = "ParserError"
            THEN Return(m, Ok(NoneV, EmptyDict, m.out.error, m.st))
            ELSE Pass(m)
      [] f.c.kind = "Repeat" ->
            LET j == NamespaceJoin(f.acc.namespace, m.out.namespace)
            IN  IF m.out.exc = "ParserError"
                THEN Return(m, Ok(TupleV(f.acc.items), f.acc.namespace,
                                  ErrorMerge(f.acc.error, m.out.error),
                                  m.st))
                ELSE IF m.out.exc # "None" THEN Pass(m)
                ELSE IF j.exc # "None" THEN Return(m, Raise(j.exc, NoneV, m.st))
                ELSE Invoke(m, [f EXCEPT !.pos = m.st.pos,
                                         !.acc = [result |-> NoneV,
                                                  namespace |-> j.namespace,
                                                  error |-> ErrorMerge(f.acc.error,
                                                                       m.out.error),
                                                  items |-> Append(f.acc.items,
                                                                   m.out.result)]],
                            CombineFrame(f.c.combinator, f.ctx))

\* what a combinator does with the outcome of its nested call
Combinator_return(env, m, f) ==
    CASE f.c.kind = "Parselet" ->
            \* result, error = parser.parselet(...); return result, {}, error
            IF m.out.exc # "None" THEN Pass(m)
            ELSE Return(m, Ok(m.out.result, EmptyDict, m.out.error, m.st))
      [] f.c.kind = "Named" ->
            IF m.out.exc # "None" THEN Pass(m)
            ELSE Return(m, Ok(m.out.result, make_namespace(f.c, f.ctx, m.out.result),
                              m.out.error, m.st))
      [] f.c.kind = "Optional" ->
            \* the ParserError is caught inside the with block: backtrack
            \* never sees it and the cursor stays where the failure left it
            IF m.out.exc = "ParserError"
            THEN Return(m, Ok(NoneV, EmptyDict, m.out.error, m.st))
            ELSE Pass(m)
      [] f.c.kind = "Repeat" ->
            LET j == NamespaceJoin(f.acc.namespace, m.out.namespace)
            IN  IF m.out.exc = "ParserError"
                THEN Return(m, Ok(TupleV(f.acc.items), f.acc.namespace,
                                  ErrorMerge(f.acc.error, m.out.error),
                                  [m.st EXCEPT !.pos = f.pos]))
                ELSE IF m.out.exc # "None" THEN Pass(m)
                ELSE IF j.exc # "None" THEN Return(m, Raise(j.exc, NoneV, m.st))
                ELSE Invoke(m, [f EXCEPT !.pos = m.st.pos,
                                         !.acc = [result |-> NoneV,
                                                  namespace |-> j.namespace,
                                                  error |-> ErrorMerge(f.acc.error,
                                                                       m.out.error),
                                                  items |-> Append(f.acc.items,
                                                                   m.out.result)]],
                            CombineFrame(f.c.combinator, f.ctx))

\* sequence(parser, context, combinators): f.i is the combinator the loop is
\* at, f.acc its result, namespace and error
sequence(env, m, f) ==
    LET j == NamespaceJoin(f.acc.namespace, m.out.namespace)
    IN  IF f.phase = "enter"
        THEN IF f.i > Len(f.items)
             THEN Return(m, Ok(f.acc.result, f.acc.namespace, f.acc.error, m.st))
             ELSE Invoke(m, [f EXCEPT !.phase = "wait"], CombineFrame(f.items[f.i], f.ctx))
        ELSE IF m.out.exc = "ParserError"
        THEN Return(m, Raise("ParserError", ErrorMerge(f.acc.error, m.out.error), m.st))
        ELSE IF m.out.exc # "None" THEN Pass(m)
        ELSE IF j.exc # "None" THEN Return(m, Raise(j.exc, NoneV, m.st))
        ELSE Goto(m, [f EXCEPT !.phase = "enter", !.i = @ + 1,
                               !.acc = [result |-> m.out.result,
                                        namespace |-> j.namespace,
                                        error |-> ErrorMerge(f.acc.error, m.out.error),
                                        items |-> <<>>]])

\* PostfixCombinator.fixme: what it does to the namespace of the combinator
fixme(p, left, namespace) ==
    LET first_combinator == p.combinator.combinators[1]
        update == make_namespace(first_combinator, p, left)
    IN  IF first_combinator.kind # "Named" THEN namespace
        ELSE [n \in DOMAIN namespace \cup DOMAIN update |->
                 IF n \in DOMAIN update THEN update[n] ELSE namespace[n]]

\* PrefixParselet.__call__(parser) and PostfixParselet.__call__(parser, left)
Parselet_call(env, m, f) ==
    LET p == f.ctx
        namespace == IF p.shape = "Postfix" THEN fixme(p, f.left, m.out.namespace)
                     ELSE m.out.namespace
        merged == merge_namespace(p, namespace)
        a == ApplyAction(p.action, m.out.result, merged.namespace)
    IN  IF f.phase = "enter"
        THEN IF p.shape = "Prefix" /\ f.has_left
             THEN Return(m, Raise("TypeError", NoneV, m.st))
             ELSE Invoke(m, [f EXCEPT !.phase = "wait"], CombineFrame(p.combinator, p))
        ELSE IF m.out.exc # "None" THEN Pass(m)
        ELSE IF merged.exc # "None" THEN Return(m, Raise(merged.exc, NoneV, m.st))
        ELSE IF a.exc # "None" THEN Return(m, Raise(a.exc, NoneV, m.st))
        ELSE Return(m, Ok(a.value, EmptyDict, m.out.error, m.st))

\* a choice whose failed parselet leaves the cursor where it failed
Parser_choice_no_backtrack(env, m, f) ==
    IF f.phase = "enter"
    THEN IF f.i > Len(f.items)
         THEN IF f.err # NoneV THEN Return(m, Raise("ParserError", f.err, m.st))
              ELSE Return(m, Raise("ParserConsumeNothingError", NoneV, m.st))
         ELSE Invoke(m, [f EXCEPT !.phase = "wait", !.pos = m.st.pos],
                     CallFrame(f.items[f.i], f.has_left, f.left))
    ELSE IF m.out.exc = "ParserError"
    THEN Goto(m, [f EXCEPT !.phase = "enter", !.i = @ + 1,
                           !.err = ErrorMerge(@, m.out.error)])
    ELSE IF m.out.exc # "None" THEN Pass(m)
    ELSE Return(m, Ok(m.out.result, EmptyDict, ErrorMerge(f.err, m.out.error), m.st))

\* Parser.choice(parselets, *args): f.i is the parselet the loop is at, f.err
\* its error, f.pos the position backtrack() goes back to
Parser_choice(env, m, f) ==
    IF f.phase = "enter"
    THEN IF f.i > Len(f.items)
         THEN IF f.err # NoneV THEN Return(m, Raise("ParserError", f.err, m.st))
              ELSE Return(m, Raise("ParserConsumeNothingError", NoneV, m.st))
         ELSE Invoke(m, [f EXCEPT !.phase = "wait", !.pos = m.st.pos],
                     CallFrame(f.items[f.i], f.has_left, f.left))
    ELSE IF m.out.exc = "ParserError"
    THEN [Goto(m, [f EXCEPT !.phase = "enter", !.i = @ + 1,
                            !.err = ErrorMerge(@, m.out.error)])
             EXCEPT !.st.pos = f.pos]
    ELSE IF m.out.exc # "None" THEN Pass(m)
    ELSE Return(m, Ok(m.out.result, EmptyDict, ErrorMerge(f.err, m.out.error), m.st))

\* PrattTable.__call__(parser, priority); f.left and f.err are left and error
PrattTable_call(env, m, f) ==
    LET table == env.g.tables[f.parser_id.id]
        token_id == current_token(env, m.st).id
        prefixes == DictGet(table.prefixes, token_id.id)
        postfixes == TakeWhile(DictGet(table.postfixes, token_id.id), f.priority)
        loop(left, err) ==
            IF Len(postfixes) = 0 THEN Return(m, Ok(left, EmptyDict, err, m.st))
            ELSE Invoke(m, [f EXCEPT !.phase = "postfix", !.left = left, !.err = err],
                        ChoiceFrame(postfixes, TRUE, left))
    IN  CASE f.phase = "enter" ->
                IF Len(prefixes) = 0
                THEN Return(m, Raise("ParserError",
                                     Parser_error(env, m.st, GetPrefixTokens(table).ret), m.st))
                ELSE Invoke(m, [f EXCEPT !.phase = "prefix"],
                            ChoiceFrame(prefixes, FALSE, NoneV))
          [] f.phase = "prefix" ->
                IF m.out.exc # "None" THEN Pass(m)
                ELSE loop(m.out.result, m.out.error)
          [] f.phase = "postfix" ->
                IF m.out.exc = "ParserError"
                THEN Return(m, Ok(f.left, EmptyDict, ErrorMerge(f.err, m.out.error), m.st))
                ELSE IF m.out.exc # "None" THEN Pass(m)
                ELSE loop(m.out.result, ErrorMerge(f.err, m.out.error))

\* PackratTable.__call__(parser, priority)
PackratTable_call(env, m, f) ==
    Goto(m, ChoiceFrame(env.g.tables[f.parser_id.id].parselets, FALSE, NoneV))

\* Parser.parselet(parser_id, priority); f.priority is "priority or 0".
\* f.pos is the position of the key
Parser_parselet(env, m, f) ==
    LET key == MemoKey(m.st, f.parser_id)
        stored == <<f.pos, f.parser_id.id>>
    IN  IF f.phase = "enter"
        THEN IF key \in DOMAIN m.st.memory
             THEN Return(m, Ok(m.st.memory[key].result, EmptyDict,
                               m.st.memory[key].error, m.st))
             ELSE IF f.parser_id.id \notin DOMAIN env.g.tables
             THEN Return(m, Raise("KeyError", NoneV, m.st))
             ELSE [Invoke(m, [f EXCEPT !.phase = "wait", !.pos = m.st.pos],
                          TableFrame(f.parser_id, f.priority))
                      EXCEPT !.st.calls = [k \in DOMAIN @ \cup {key} |->
                                              IF k = key THEN Count(@, key) + 1
                                              ELSE @[k]]]
        ELSE IF m.out.exc # "None" THEN Pass(m)
        ELSE Return(m, Ok(m.out.result, EmptyDict, m.out.error,
                          [m.st EXCEPT !.memory =
                              [k \in DOMAIN @ \cup {stored} |->
                                  IF k = stored
                                  THEN [result |-> m.out.result, error |-> m.out.error]
                                  ELSE @[k]]]))

\* Parser.parse(parser_id)
Parser_parse(env, m, f) ==
    LET e == Parser_consume(env, m.st, eof_id(env.g))
    IN  IF f.phase = "enter"
        THEN [Invoke(m, [f EXCEPT !.phase = "wait"], ParseletFrame(f.parser_id, 0))
                 EXCEPT !.st.buffered = 1]
        ELSE IF m.out.exc # "None" THEN Pass(m)
        ELSE IF e.exc = "ParserError"
        THEN Return(m, Raise("ParserError", ErrorMerge(m.out.error, e.error), e.st))
        ELSE Return(m, Ok(m.out.result, EmptyDict, NoneV, e.st))

\* one step of the innermost call
Step(env, m) ==
    LET f == Top(m)
    IN  CASE f.k = "combinator" ->
                IF f.phase = "enter" THEN Combinator_call(env, m, f)
                ELSE Combinator_return(env, m, f)
          [] f.k = "sequence" -> sequence(env, m, f)
          [] f.k = "call" -> Parselet_call(env, m, f)
          [] f.k = "choice" -> Parser_choice(env, m, f)
          [] f.k = "table" ->
                IF env.g.tables[f.parser_id.id].kind = "Pratt"
                THEN PrattTable_call(env, m, f)
                ELSE PackratTable_call(env, m, f)
          [] f.k = "parselet" -> Parser_parselet(env, m, f)
          [] f.k = "parse" -> Parser_parse(env, m, f)

(***************************************************************************)
(* The state machine.  grammars holds the Grammar objects of the program, *)
(* last the outcome of the latest Grammar call, scan and dscan a Scanner   *)
(* and a DefaultScanner made for grammars[1] over the same text, parse the *)
(* run of a Parser.                                                        *)
(***************************************************************************)
GrammarIds == {1, 2, 3}

NoCall == [op |-> "none", g |-> 0, other |-> 0, name |-> "", exc |-> "None",
           ret |-> NoSymbol]

Call(op, g, other, name, r) ==
    [op |-> op, g |-> g, other |-> other, name |-> name, exc |-> r.exc, ret |-> r.ret]

NoParse == [status |-> "none"]

Init ==
    /\ grammars = [i \in GrammarIds |-> NewGrammar]
    /\ last = NoCall
    /\ scan = NoScanner
    /\ dscan = NoScanner
    /\ parse = NoParse

\* a grammar is built before a scanner is made for it
Building == scan.status = "none" /\ parse.status = "none"

RoomForSymbol(g, name) ==
    HasName(grammars[g].symbols, name) \/ Len(grammars[g].symbols) < 2 + MaxSymbols

RoomForPattern(g, cap) == Len(grammars[g].patterns) < cap

AddToken(g, name) ==
    /\ Building
    /\ RoomForSymbol(g, name)
    /\ LET r == add_token(grammars[g], name, FALSE)
       IN  /\ grammars' = [grammars EXCEPT ![g] = r.g]
           /\ last' = Call("add_token", g, 0, name, r)
    /\ UNCHANGED <<scan, dscan, parse>>

AddPattern(g, name, regex, priority, cap) ==
    /\ Building
    /\ RoomForPattern(g, cap)
    /\ HasName(Tokens(grammars[g]), name)
    /\ LET r == add_pattern(grammars[g], ByName(Tokens(grammars[g]), name), regex,
                            priority, FALSE)
       IN  /\ grammars' = [grammars EXCEPT ![g] = r.g]
           /\ last' = Call("add_pattern", g, 0, name, r)
    /\ UNCHANGED <<scan, dscan, parse>>

AddImplicit(g, literal, cap) ==
    /\ Building
    /\ RoomForSymbol(g, literal)
    /\ RoomForPattern(g, cap)
    /\ LET r == add_implicit(grammars[g], literal)
       IN  /\ grammars' = [grammars EXCEPT ![g] = r.g]
           /\ last' = Call("add_implicit", g, 0, literal, r)
    /\ UNCHANGED <<scan, dscan, parse>>

AddTrivia(g, name) ==
    /\ Building
    /\ HasName(Tokens(grammars[g]), name)
    /\ LET r == add_trivia(grammars[g], ByName(Tokens(grammars[g]), name))
       IN  /\ grammars' = [grammars EXCEPT ![g] = r.g]
           /\ last' = Call("add_trivia", g, 0, name, r)
    /\ UNCHANGED <<scan, dscan, parse>>

AddBrackets(g, open, close) ==
    /\ Building
    /\ HasName(Tokens(grammars[g]), open)
    /\ HasName(Tokens(grammars[g]), close)
    /\ LET r == add_brackets(grammars[g], ByName(Tokens(grammars[g]), open),
                             ByName(Tokens(grammars[g]), close))
       IN  /\ grammars' = [grammars EXCEPT ![g] = r.g]
           /\ last' = Call("add_brackets", g, 0, open, r)
    /\ UNCHANGED <<scan, dscan, parse>>

AddParselet(g, name, result, kind) ==
    /\ Building
    /\ RoomForSymbol(g, name)
    /\ LET r == add_parselet(grammars[g], name, result, kind)
       IN  /\ grammars' = [grammars EXCEPT ![g] = r.g]
           /\ last' = Call("add_parselet", g, 0, name, r)
    /\ UNCHANGED <<scan, dscan, parse>>

\* the most parselets the model registers in one table
MaxParsers == 1

\* grammar.add_parser(parser_id, token_id): the rule "name := token"
AddTokenParser(g, name, token, priority) ==
    /\ Building
    /\ HasName(Parselets(grammars[g]), name)
    /\ HasName(Tokens(grammars[g]), token)
    /\ LET parser_id == ByName(Parselets(grammars[g]), name)
           combinator == TokenCombinator(ByName(Tokens(grammars[g]), token))
           r == add_parser(grammars[g], parser_id, combinator,
                           make_return_result(combinator), priority)
       IN  /\ Len(grammars[g].tables[parser_id.id].parselets) < MaxParsers
           /\ grammars' = [grammars EXCEPT ![g] = r.g]
           /\ last' = Call("add_parser", g, 0, name, r)
    /\ UNCHANGED <<scan, dscan, parse>>

\* grammars[self].extend(grammars[other]); the guard on the pattern list
\* bounds the repetitions of extend
Extend(self, other) ==
    /\ Building
    /\ self # other
    /\ Len(grammars[self].patterns) <= MaxExtPatterns
    /\ LET r == extend(grammars[self], grammars[other])
       IN  /\ grammars' = [grammars EXCEPT ![self] = r.g]
           /\ last' = Call("extend", self, other, "", r)
    /\ UNCHANGED <<scan, dscan, parse>>

\* grammars[3] = Grammar.merge(grammars[1], grammars[2])
Merge ==
    /\ Building
    /\ LET r == merge(<<grammars[1], grammars[2]>>)
       IN  /\ grammars' = [grammars EXCEPT ![3] = r.g]
           /\ last' = Call("merge", 3, 0, "", r)
    /\ UNCHANGED <<scan, dscan, parse>>

\* Scanner(grammars[1], "<example>", content) and
\* DefaultScanner(grammars[1], "<example>", content)
MakeScanners(content) ==
    /\ Building
    /\ scan' = NewScanner(content)
    /\ dscan' = NewScanner(content)
    /\ UNCHANGED <<grammars, last, parse>>

\* next() on the generator of Scanner.tokenize
ScannerNext ==
    /\ scan.status = "running"
    /\ LET r == ScannerTokenize(grammars[1], scan)
       IN  scan' = IF r.exc # "None" THEN r.sc
                   ELSE [r.sc EXCEPT !.out = Append(@, r.token),
                                     !.starts = Append(@, scan.position)]
    /\ UNCHANGED <<grammars, last, dscan, parse>>

\* one turn of the loop of DefaultScanner.tokenize over super().tokenize().
\* The two scanners share nothing; the model runs this one second.
DefaultScannerNext ==
    /\ scan.status \notin {"none", "running"}
    /\ dscan.status = "running"
    /\ LET r == ScannerTokenize(grammars[1], dscan)
       IN  dscan' = IF r.exc = "None" /\ DefaultYields(grammars[1], r.token)
                    THEN [r.sc EXCEPT !.out = Append(@, r.token),
                                      !.starts = Append(@, dscan.position)]
                    ELSE r.sc
    /\ UNCHANGED <<grammars, last, scan, parse>>

(***************************************************************************)
(* SpecScan: a grammar is given tokens, patterns, literals and trivia,     *)
(* then a text is scanned by both scanners.                                *)
(***************************************************************************)
ScanTokenNames == {"Name", "Word"}
ScanLiterals == {"f", "fo"}
ScanRegexes == {RePlus({"f", "o"}), RePlus({"f"}), ReStar({"o"})}
ScanPriorities == {PRIORITY_MAX, -5}
Contents == UNION {[1..n -> Chars] : n \in 0..MaxContent}

NextScan ==
    \/ \E name \in ScanTokenNames : AddToken(1, name)
    \/ \E name \in ScanTokenNames, regex \in ScanRegexes, priority \in ScanPriorities :
          AddPattern(1, name, regex, priority, MaxPatterns)
    \/ \E literal \in ScanLiterals : AddImplicit(1, literal, MaxPatterns)
    \/ \E name \in ScanTokenNames \cup ScanLiterals : AddTrivia(1, name)
    \/ \E content \in Contents : MakeScanners(content)
    \/ ScannerNext
    \/ DefaultScannerNext

SpecScan == Init /\ [][NextScan]_vars

(***************************************************************************)
(* SpecExtend: two grammars are built, then one is extended by the other   *)
(* or both are merged into a third.                                        *)
(***************************************************************************)
Built == {1, 2}
ExtTokenNames == {"Name", "Word"}
ExtLiterals == {"f"}
ExtRegexes == {RePlus({"f"})}

NextExtend ==
    \/ \E g \in Built, name \in ExtTokenNames : AddToken(g, name)
    \/ \E g \in Built, name \in ExtTokenNames, regex \in ExtRegexes :
          AddPattern(g, name, regex, PRIORITY_MAX, MaxExtPatterns)
    \/ \E g \in Built, literal \in ExtLiterals : AddImplicit(g, literal, MaxExtPatterns)
    \/ AddTrivia(2, "Name")
    \/ AddBrackets(2, "f", "f")
    \/ AddParselet(2, "expr", "SyntaxNode", "Packrat")
    \/ AddTokenParser(2, "expr", "f", PRIORITY_MAX)
    \/ Extend(1, 2)
    \/ Merge

SpecExtend == Init /\ [][NextExtend]_vars

(***************************************************************************)
(* SpecSymbols: tokens, literals and parselets are registered in two       *)
(* grammars under names the grammar accepts and names it refuses, and one  *)
(* grammar is extended by the other.                                       *)
(***************************************************************************)
SymTokenNames == {"Name", "A+", "expr", "+"}
SymLiterals == {"f"}
SymParseletNames == {"expr", "atom", "Name"}
SymResultTypes == {"SyntaxNode", "object"}
SymKinds == {"Packrat", "Pratt"}

\* the parselet expr as the extending grammar declares it
OtherParselets == {<<"SyntaxNode", "Packrat">>, <<"object", "Packrat">>,
                   <<"SyntaxNode", "Pratt">>}

NextSymbols ==
    \/ \E name \in SymTokenNames : AddToken(1, name)
    \/ \E literal \in SymLiterals : AddImplicit(1, literal, MaxExtPatterns)
    \/ \E name \in SymParseletNames, result \in SymResultTypes, kind \in SymKinds :
          AddParselet(1, name, result, kind)
    \/ AddToken(2, "Name")
    \/ \E v \in OtherParselets : AddParselet(2, "expr", v[1], v[2])
    \/ Extend(1, 2)

SpecSymbols == Init /\ [][NextSymbols]_vars

(***************************************************************************)
(* The grammars that are parsed.  A rule text is written as the combinator *)
(* make_combinator makes of it: each string literal is registered with     *)
(* add_implicit, each name becomes a token or a parselet reference.        *)
(***************************************************************************)
\* the generator make_return_variable(name)
make_return_variable(name, combinator) ==
    ReturnVariableAction(name, variables(combinator)[name])

\* the generator make_call(functor, return_type)
make_call(functor, return_type) == CallAction(functor, return_type)

TokenRef(g, name) == TokenCombinator(ByName(Tokens(g), name))
ParseletRef(g, name) == ParseletCombinator(ByName(Parselets(g), name), FALSE, 0)
ParseletRefAt(g, name, priority) ==
    ParseletCombinator(ByName(Parselets(g), name), TRUE, priority)

\* expr := lhs:expr "op" rhs:expr <right>, at the given priority
BinaryRule(g0, op, right, priority) ==
    LET g == add_implicit(g0, op).g
    IN  add_parser(g, ByName(Parselets(g), "expr"),
            SequenceCombinator(<<NamedCombinator(ParseletRef(g, "expr"), "lhs"),
                                 TokenRef(g, op),
                                 NamedCombinator(ParseletRefAt(g, "expr", right), "rhs")>>),
            make_call(Functor("binary", op), Scalar("object")), priority).g

\* expr := "op" value:expr <800>
UnaryRule(g0, op) ==
    LET g == add_implicit(g0, op).g
    IN  add_parser(g, ByName(Parselets(g), "expr"),
            SequenceCombinator(<<TokenRef(g, op),
                                 NamedCombinator(ParseletRefAt(g, "expr", 800), "value")>>),
            make_call(Functor("unary", op), Scalar("object")), PRIORITY_MAX).g

\* expr := "(" value:expr ")"
ParenRule(g0) ==
    LET g == add_implicit(add_implicit(g0, "(").g, ")").g
        combinator ==
            SequenceCombinator(<<TokenRef(g, "("),
                                 NamedCombinator(ParseletRef(g, "expr"), "value"),
                                 TokenRef(g, ")")>>)
    IN  add_parser(g, ByName(Parselets(g), "expr"), combinator,
                   make_return_variable("value", combinator), PRIORITY_MAX).g

\* expr := value:Number
NumberRule(g) ==
    add_parser(g, ByName(Parselets(g), "expr"),
               NamedCombinator(TokenRef(g, "Number"), "value"),
               make_call(Functor("value", ""), Scalar("object")), PRIORITY_MAX).g

Digits == {"1", "2", "3", "4", "5", "6", "7", "8", "9"}
Letters == {"a", "b"}

\* the grammar of the parser tests, rule by rule: its tokens and parselet,
ExprNames ==
    LET g1 == add_token(NewGrammar, "Whitespace", FALSE)
        g2 == add_trivia(add_pattern(g1.g, g1.ret, RePlus({" "}), PRIORITY_MAX, FALSE).g,
                         g1.ret).g
        g3 == add_token(g2, "Name", FALSE)
        g4 == add_pattern(g3.g, g3.ret, RePlus(Letters), PRIORITY_MAX, FALSE).g
        g5 == add_token(g4, "Number", FALSE)
        g6 == add_pattern(g5.g, g5.ret, RePlus(Digits), PRIORITY_MAX, FALSE).g
    IN  add_parselet(g6, "expr", "object", "Pratt").g

\* the number and the power,
ExprPower == BinaryRule(NumberRule(ExprNames), "**", 899, 900)

\* the sums,
ExprSums == BinaryRule(BinaryRule(ExprPower, "+", 600, 600), "-", 600, 600)

\* the products,
ExprProducts == BinaryRule(BinaryRule(ExprSums, "*", 700, 700), "/", 700, 700)

\* the signs,
ExprSigns == UnaryRule(UnaryRule(ExprProducts, "-"), "+")

\* and the parentheses
ExprGrammar == ParenRule(ExprSigns)

\* a Packrat rule name := combinator, returning the result
PackratRule(g, name, combinator) ==
    add_parser(g, ByName(Parselets(g), name), combinator,
               make_return_result(combinator), PRIORITY_MAX).g

\* stmt := atom "f" | atom "o" | "o" ;  atom := "f"
ChoiceGrammar ==
    LET g1 == add_implicit(add_implicit(NewGrammar, "f").g, "o").g
        g2 == add_parselet(add_parselet(g1, "stmt", "SyntaxToken", "Packrat").g,
                           "atom", "SyntaxToken", "Packrat").g
        g3 == PackratRule(g2, "stmt",
                  SequenceCombinator(<<ParseletRef(g2, "atom"), TokenRef(g2, "f")>>))
        g4 == PackratRule(g3, "stmt",
                  SequenceCombinator(<<ParseletRef(g3, "atom"), TokenRef(g3, "o")>>))
        g5 == PackratRule(g4, "stmt", TokenRef(g4, "o"))
    IN  PackratRule(g5, "atom", TokenRef(g5, "f"))

\* stmt := "f" atom | "o" ;  atom has no parser
GapGrammar ==
    LET g1 == add_implicit(add_implicit(NewGrammar, "f").g, "o").g
        g2 == add_parselet(add_parselet(g1, "stmt", "SyntaxToken", "Packrat").g,
                           "atom", "SyntaxToken", "Packrat").g
        g3 == PackratRule(g2, "stmt",
                  SequenceCombinator(<<TokenRef(g2, "f"), ParseletRef(g2, "atom")>>))
    IN  PackratRule(g3, "stmt", TokenRef(g3, "o"))

(***************************************************************************)
(* Expression trees and their texts.  A tree is a number, a prefix         *)
(* operator on a tree, or a binary operator on two trees; its numbers are  *)
(* 1, 2, 3, ... from left to right.  Text writes a tree with brackets      *)
(* only around an operand that would otherwise bind elsewhere (or, when    *)
(* full, around every operand); Value is the value the actions of          *)
(* ExprGrammar build for the tree.                                         *)
(***************************************************************************)
MaxOps == 3
MaxSteps == 1000
StepsAtOnce == 16

NoTree == [k |-> "nil"]
Num == [k |-> "num", op |-> "", lhs |-> NoTree, rhs |-> NoTree]
Un(op, t) == [k |-> "un", op |-> op, lhs |-> NoTree, rhs |-> t]
Bin(op, l, r) == [k |-> "bin", op |-> op, lhs |-> l, rhs |-> r]

PrefixOps == {"+", "-"}
BinaryOps == {"+", "-", "*", "/", "**"}

RECURSIVE TreesOf(_)
TreesOf(n) ==
    IF n = 0 THEN {Num}
    ELSE {Un(op, t) : op \in PrefixOps, t \in TreesOf(n - 1)}
         \cup UNION {{Bin(op, l, r) : op \in BinaryOps, l \in TreesOf(m),
                                      r \in TreesOf(n - 1 - m)} : m \in 0..(n - 1)}

Trees == UNION {TreesOf(n) : n \in 0..MaxOps}

DigitAt(n) == <<"1", "2", "3", "4", "5", "6", "7", "8", "9">>[n]

OpPrec(op) == IF op \in {"+", "-"} THEN 600 ELSE IF op \in {"*", "/"} THEN 700 ELSE 900

Prec(t) == IF t.k = "num" THEN 1000 ELSE IF t.k = "un" THEN 800 ELSE OpPrec(t.op)

\* the operand binds tighter than the operator, or as tight on the side the
\* operator associates to
BracketLeft(op, l) == Prec(l) < OpPrec(op) \/ (Prec(l) = OpPrec(op) /\ op = "**")
BracketRight(op, r) ==
    r.k # "un" /\ (Prec(r) < OpPrec(op) \/ (Prec(r) = OpPrec(op) /\ op # "**"))

RECURSIVE Text(_, _, _)
Bracketed(t, n, full, needed) ==
    LET r == Text(t, n, full)
    IN  IF needed \/ full THEN [toks |-> <<"(">> \o r.toks \o <<")">>, n |-> r.n] ELSE r

\* [toks, n]: the text of t whose first number is n, and the next number
Text(t, n, full) ==
    CASE t.k = "num" -> [toks |-> <<DigitAt(n)>>, n |-> n + 1]
      [] t.k = "un" ->
            LET a == Bracketed(t.rhs, n, full, Prec(t.rhs) < 800)
            IN  [toks |-> <<t.op>> \o a.toks, n |-> a.n]
      [] t.k = "bin" ->
            LET l == Bracketed(t.lhs, n, full, BracketLeft(t.op, t.lhs))
                r == Bracketed(t.rhs, l.n, full, BracketRight(t.op, t.rhs))
            IN  [toks |-> l.toks \o <<t.op>> \o r.toks, n |-> r.n]

RECURSIVE ValueOf(_, _)
\* [value, n]
ValueOf(t, n) ==
    CASE t.k = "num" -> [value |-> StrV(<<DigitAt(n)>>), n |-> n + 1]
      [] t.k = "un" ->
            LET a == ValueOf(t.rhs, n)
            IN  [value |-> TupleV(<<StrV(CharsOf(t.op)), a.value>>), n |-> a.n]
      [] t.k = "bin" ->
            LET l == ValueOf(t.lhs, n)
                r == ValueOf(t.rhs, l.n)
            IN  [value |-> TupleV(<<l.value, StrV(CharsOf(t.op)), r.value>>), n |-> r.n]

(***************************************************************************)
(* SpecParse: a text of tokens is parsed from a start parselet.  The       *)
(* token stream is what DefaultScanner yields for the text: one token per  *)
(* word, then <EOF> with the empty value.                                  *)
(***************************************************************************)
TokenOf(g, word, location) ==
    IF word \in Digits THEN TokenV(ByName(Tokens(g), "Number"), <<word>>, location)
    ELSE IF word \in Letters THEN TokenV(ByName(Tokens(g), "Name"), <<word>>, location)
    ELSE TokenV(ByName(Tokens(g), word), CharsOf(word), location)

TokenStream(g, words) ==
    [i \in 1..(Len(words) + 1) |->
        IF i <= Len(words) THEN TokenOf(g, words[i], i)
        ELSE TokenV(eof_id(g), <<>>, i)]

\* Parser(DefaultScanner(grammar, '<example>', text)) and the call of its
\* parse(grammar.parselets[start])
Parsing(gi, start, words, tree, full) ==
    [status |-> "running", g |-> gi, start |-> start, words |-> words,
     tree |-> tree, full |-> full, steps |-> 0,
     m |-> NewMachine(ByName(Parselets(grammars[gi]), start))]

InitParse ==
    /\ grammars = [i \in GrammarIds |->
                      IF i = 1 THEN ExprGrammar ELSE IF i = 2 THEN ChoiceGrammar
                      ELSE GapGrammar]
    /\ last = NoCall
    /\ scan = NoScanner
    /\ dscan = NoScanner
    /\ parse = NoParse

\* the text of an expression tree is given to a parser
ParseTree(tree, full) ==
    /\ parse.status = "none"
    /\ parse' = Parsing(1, "expr", Text(tree, 1, full).toks, tree, full)
    /\ UNCHANGED <<grammars, last, scan, dscan>>

\* any text is given to a parser
ParseWords(gi, start, words) ==
    /\ parse.status = "none"
    /\ HasName(Parselets(grammars[gi]), start)
    /\ parse' = Parsing(gi, start, words, NoTree, FALSE)
    /\ UNCHANGED <<grammars, last, scan, dscan>>

\* the parse goes on by StepsAtOnce steps, or to its end; a parse of more
\* than MaxSteps steps is given up as one that does not end
RECURSIVE Steps(_, _, _)
Steps(env, m, n) ==
    IF n = 0 \/ Len(m.stack) = 0 THEN [m |-> m, left |-> n]
    ELSE Steps(env, Step(env, m), n - 1)

ParserStep ==
    /\ parse.status = "running"
    /\ LET g == grammars[parse.g]
           r == Steps([g |-> g, tokens |-> TokenStream(g, parse.words)], parse.m,
                      StepsAtOnce)
           steps == parse.steps + (StepsAtOnce - r.left)
       IN  parse' = [parse EXCEPT
                        !.m = r.m,
                        !.steps = steps,
                        !.status = IF Len(r.m.stack) = 0 \/ steps >= MaxSteps
                                   THEN "done" ELSE "running"]
    /\ UNCHANGED <<grammars, last, scan, dscan>>

\* what parse returned or raised, once the parse is over
ParseExc == IF Len(parse.m.stack) = 0 THEN parse.m.out.exc ELSE "Diverges"
ParseResult == parse.m.out.result
ParseError == parse.m.out.error

ExprWords == {"1", "-", "**", "(", ")", "a"}
PackratWords == {"f", "o"}
WordsOver(alphabet) == UNION {[1..n -> alphabet] : n \in 0..MaxTokens}

NextParse ==
    \/ \E tree \in Trees, full \in BOOLEAN : ParseTree(tree, full)
    \/ \E words \in WordsOver(ExprWords) : ParseWords(1, "expr", words)
    \/ \E gi \in {2, 3}, start \in {"stmt", "atom"}, words \in WordsOver(PackratWords) :
          ParseWords(gi, start, words)
    \/ ParserStep

SpecParse == InitParse /\ [][NextParse]_vars

(***************************************************************************)
(* Properties of the scanners (SpecScan).                                  *)
(***************************************************************************)
ScanGrammar == grammars[1]

\* the end of pattern i's match in the scanned text at cursor p, -1 if none
EndAt(i, p) == ReMatch(ScanGrammar.patterns[i].pattern, scan.buffer, p)

MatchingAt(p) == {i \in 1..Len(ScanGrammar.patterns) : EndAt(i, p) >= 0}

\* the patterns whose match at p ends furthest
LongestAt(p) == {i \in MatchingAt(p) : \A j \in MatchingAt(p) : EndAt(j, p) <= EndAt(i, p)}

\* the tokens of scan.out made by __match (all but the final <EOF>)
Matched == {k \in 1..Len(scan.out) : scan.starts[k] < scan.length}

IsTokenOf(token, i, p) ==
    /\ SymbolEq(token.id, ScanGrammar.patterns[i].token_id)
    /\ token.value = SubSeq(scan.buffer, p + 1, EndAt(i, p))

\* C3 as stated: at every cursor position the base Scanner emits the token of
\* a pattern with the greatest match end, and among several patterns matching
\* up to that end the one LATEST in the priority-sorted pattern list.
C3_LatestLongestMatch ==
    \A k \in Matched :
        LET p == scan.starts[k]
        IN  MatchingAt(p) # {} =>
                \E i \in LongestAt(p) :
                    /\ \A j \in LongestAt(p) : j <= i
                    /\ IsTokenOf(scan.out[k], i, p)

\* C3 amended: at every cursor position where a pattern matches, the token the
\* base Scanner emits is that of a pattern with the greatest match end, and
\* among several patterns matching up to that end the one EARLIEST in the
\* priority-sorted pattern list (lowest priority, first inserted).
C3_EarliestLongestMatch ==
    \A k \in Matched :
        LET p == scan.starts[k]
        IN  MatchingAt(p) # {} =>
                \E i \in LongestAt(p) :
                    /\ \A j \in LongestAt(p) : i <= j
                    /\ IsTokenOf(scan.out[k], i, p)

\* a token of two characters was emitted where two patterns of different
\* tokens tie for the longest match
C3_Witness ==
    \E k \in Matched :
        LET p == scan.starts[k]
        IN  /\ \E i, j \in LongestAt(p) :
                  ~SymbolEq(ScanGrammar.patterns[i].token_id,
                            ScanGrammar.patterns[j].token_id)
            /\ Len(scan.out[k].value) = 2

ImplicitAt(p) == {i \in LongestAt(p) : ScanGrammar.patterns[i].is_implicit}

DefaultAt(p) ==
    {i \in LongestAt(p) : /\ ~ScanGrammar.patterns[i].is_implicit
                          /\ ScanGrammar.patterns[i].priority = PRIORITY_MAX}

\* C4: where an implicit literal and non-implicit patterns of default priority
\* match the same longest span, the base Scanner emits the literal's token;
\* where only non-implicit patterns reach the longest span (a literal matching
\* a shorter one), the token emitted is a non-implicit pattern's.
C4_ImplicitWinsTie ==
    \A k \in Matched :
        LET p == scan.starts[k]
        IN  /\ (/\ ImplicitAt(p) # {}
                /\ DefaultAt(p) # {}
                /\ LongestAt(p) = ImplicitAt(p) \cup DefaultAt(p))
               => \E i \in ImplicitAt(p) : IsTokenOf(scan.out[k], i, p)
            /\ (/\ LongestAt(p) # {}
                /\ ImplicitAt(p) = {})
               => /\ ~scan.out[k].id.is_implicit
                  /\ \E i \in LongestAt(p) : IsTokenOf(scan.out[k], i, p)

\* a token was emitted where a literal and a default-priority pattern tie
C4_Witness ==
    \E k \in Matched :
        LET p == scan.starts[k]
        IN  /\ ImplicitAt(p) # {}
            /\ DefaultAt(p) # {}
            /\ LongestAt(p) = ImplicitAt(p) \cup DefaultAt(p)
            /\ scan.out[k].id.is_implicit

\* C5 as stated: where no pattern matches, the base Scanner emits <ERROR> with
\* the one character at the cursor and moves the cursor by one, so that the
\* character after it starts the next token.
C5_ErrorAdvancesOne ==
    \A k \in Matched :
        LET p == scan.starts[k]
        IN  MatchingAt(p) = {} =>
                /\ SymbolEq(scan.out[k].id, error_id(ScanGrammar))
                /\ scan.out[k].value = <<scan.buffer[p + 1]>>
                /\ (k < Len(scan.out) /\ p + 1 < scan.length) =>
                       scan.starts[k + 1] = p + 1

\* C6 as stated: for every grammar and text the scan ends, and it ends by
\* emitting <EOF> with an empty value.
C6_EndsWithEOF ==
    scan.status \notin {"none", "running"} =>
        /\ scan.status = "done"
        /\ Len(scan.out) > 0
        /\ SymbolEq(scan.out[Len(scan.out)].id, eof_id(ScanGrammar))
        /\ scan.out[Len(scan.out)].value = <<>>

IsTrivia(token) ==
    \E t \in ScanGrammar.trivia : t.cls = token.id.cls /\ t.id = token.id.id

\* C7: the tokens of DefaultScanner are those of the base Scanner on the same
\* input without the tokens whose id is in grammar.trivia, in the same order
\* (and both scans end the same way).
C7_DefaultIsFiltered ==
    dscan.status \notin {"none", "running"} =>
        /\ dscan.out = SelectSeq(scan.out, LAMBDA token : ~IsTrivia(token))
        /\ dscan.status = scan.status

\* both scans are complete, and trivia and other tokens were met
C7_Witness ==
    /\ dscan.status = "done"
    /\ \E k \in 1..Len(scan.out) : IsTrivia(scan.out[k])
    /\ Len(dscan.out) >= 2

(***************************************************************************)
(* Properties of extend and merge (SpecExtend).                            *)
(***************************************************************************)
\* the latest call was an extend or a merge that returned; Sources are the
\* grammars it merged into grammars[last.g]
Extended == last.op \in {"extend", "merge"} /\ last.exc = "None"
Sources == IF last.op = "extend" THEN {last.other} ELSE {1, 2}

\* C9 as stated: after result.extend(other), and so after merge, every pattern
\* of other with token name n, regex r and priority p has a pattern in
\* result.patterns with regex r and priority p whose token is result.tokens[n].
C9_NoPatternLost ==
    Extended =>
        \A o \in Sources : \A i \in 1..Len(grammars[o].patterns) :
            LET q == grammars[o].patterns[i]
                result == grammars[last.g]
            IN  \E j \in 1..Len(result.patterns) :
                    /\ result.patterns[j].pattern = q.pattern
                    /\ result.patterns[j].priority = q.priority
                    /\ HasName(Tokens(result), q.token_id.name)
                    /\ result.patterns[j].token_id =
                           ByName(Tokens(result), q.token_id.name)

\* C10 as stated: after merge or extend, no two patterns of the result have
\* the same token name, regex, priority and is_implicit flag.
C10_NoDuplicatePattern ==
    Extended =>
        LET patterns == grammars[last.g].patterns
        IN  \A i, j \in 1..Len(patterns) :
                (/\ patterns[i].token_id.name = patterns[j].token_id.name
                 /\ patterns[i].pattern = patterns[j].pattern
                 /\ patterns[i].priority = patterns[j].priority
                 /\ patterns[i].is_implicit = patterns[j].is_implicit) => i = j

\* token is the token grammar g registered under token's name
OwnToken(g, token) ==
    /\ HasName(Tokens(g), token.name)
    /\ ByName(Tokens(g), token.name) = token

NamesOf(tokens) == {t.name : t \in tokens}
PairNamesOf(pairs) == {<<e[1].name, e[2].name>> : e \in pairs}

\* C11 as stated: after merge or extend every TokenID in the result's trivia,
\* brackets, open_brackets, close_brackets and bracket_pairs is the result's
\* own token of that name, and the trivia names and the bracket pair names of
\* the result are the unions of those of the merged grammars.
C11_TriviaBracketsRemapped ==
    Extended =>
        LET result == grammars[last.g]
        IN  /\ \A t \in result.trivia \cup result.open_brackets \cup result.close_brackets :
                   OwnToken(result, t)
            /\ \A e \in result.brackets \cup result.bracket_pairs :
                   OwnToken(result, e[1]) /\ OwnToken(result, e[2])
            /\ \A o \in Sources :
                   /\ NamesOf(grammars[o].trivia) \subseteq NamesOf(result.trivia)
                   /\ PairNamesOf(grammars[o].brackets) \subseteq PairNamesOf(result.brackets)
            /\ last.op = "merge" =>
                   /\ NamesOf(result.trivia) =
                          UNION {NamesOf(grammars[o].trivia) : o \in Sources}
                   /\ PairNamesOf(result.brackets) =
                          UNION {PairNamesOf(grammars[o].brackets) : o \in Sources}

(***************************************************************************)
(* Properties of the parser (under SpecParse).                             *)
(***************************************************************************)
\* C1 as stated: during one Parser.parse call the table of a parselet is run at
\* most once for every pair (cursor position, parselet id), also when the run
\* fails with ParserError.
C1_TableRunOncePerKey ==
    parse.status = "done" =>
        \A key \in DOMAIN parse.m.st.calls : parse.m.st.calls[key] <= 1

\* the five texts the claim C2 names, with the trees it gives for them
C2_Examples ==
    <<[words |-> <<"1", "+", "2", "+", "3">>,
       tree |-> Bin("+", Bin("+", Num, Num), Num)],
      [words |-> <<"1", "**", "2", "**", "3">>,
       tree |-> Bin("**", Num, Bin("**", Num, Num))],
      [words |-> <<"1", "+", "2", "*", "3">>,
       tree |-> Bin("+", Num, Bin("*", Num, Num))],
      [words |-> <<"1", "*", "2", "+", "3">>,
       tree |-> Bin("+", Bin("*", Num, Num), Num)],
      [words |-> <<"-", "1", "*", "2">>,
       tree |-> Bin("*", Un("-", Num), Num)]>>

\* C2: for the Pratt expression grammar of the test, the text of every
\* expression tree parses to that tree, whether written with every bracket or
\* with only the brackets that precedence (** over prefix + - over * / over
\* + -) and associativity (+ - * / to the left, ** to the right) require; the
\* five texts of the claim parse to the trees it names.
C2_PrattPrecedence ==
    /\ (parse.status = "done" /\ parse.tree # NoTree) =>
          /\ ParseExc = "None"
          /\ ParseResult = ValueOf(parse.tree, 1).value
    /\ \A i \in 1..Len(C2_Examples) :
          (parse.status = "done" /\ parse.g = 1 /\ parse.words = C2_Examples[i].words) =>
              /\ ParseExc = "None"
              /\ ParseResult = ValueOf(C2_Examples[i].tree, 1).value

\* '1 + 2 * 3' was parsed from its tree, written without brackets
C2_Witness ==
    /\ parse.status = "done"
    /\ parse.tree = Bin("+", Num, Bin("*", Num, Num))
    /\ parse.words = <<"1", "+", "2", "*", "3">>
    /\ ParseResult = TupleV(<<StrV(<<"1">>), StrV(<<"+">>),
                               TupleV(<<StrV(<<"2">>), StrV(<<"*">>), StrV(<<"3">>)>>)>>)

\* C8 as stated: Parser.parse returns a value or raises a ParserError that
\* carries a location, the actual token and the expected tokens; no other
\* error leaves parse, also when a parselet has no registered parser.
C8_OnlyParserErrorEscapes ==
    parse.status = "done" =>
        \/ ParseExc = "None"
        \/ /\ ParseExc = "ParserError"
           /\ ParseError.type = "ParserError"
           /\ ParseError.actual_token.cls = "TokenID"


(***************************************************************************)
(* Properties of the symbol registry (SpecSymbols).                        *)
(***************************************************************************)
\* C12 as stated: after self.extend(other) returns, every parselet of other
\* is a parselet of self under the same name with the same kind and the same
\* result_type; extend raises GrammarError only when self holds a parselet of
\* other under a different kind (a parselet of the same kind and result_type
\* does not make it fail).
C12_ExtendKeepsParselets ==
    last.op = "extend" =>
        LET self == grammars[last.g]
            other == grammars[last.other]
        IN  /\ last.exc = "None" =>
                   \A i \in 1..Len(Parselets(other)) :
                       LET p == Parselets(other)[i]
                       IN  /\ HasName(Parselets(self), p.name)
                           /\ ByName(Parselets(self), p.name).kind = p.kind
                           /\ ByName(Parselets(self), p.name).result_type = p.result_type
            /\ last.exc # "None" =>
                   /\ last.exc = "GrammarError"
                   /\ \E i \in 1..Len(Parselets(other)) :
                          LET p == Parselets(other)[i]
                          IN  /\ HasName(Parselets(self), p.name)
                              /\ ByName(Parselets(self), p.name).kind # p.kind

\* C14 as stated: in every grammar no two symbols, tokens or parselets, carry
\* the same integer id; <EOF> has id 1 and <ERROR> id 2.
C14_UniqueSymbolIds ==
    \A g \in GrammarIds :
        LET symbols == grammars[g].symbols
        IN  /\ \A i, j \in 1..Len(symbols) : symbols[i].id = symbols[j].id => i = j
            /\ ByName(symbols, "<EOF>").id = 1
            /\ ByName(symbols, "<ERROR>").id = 2

\* C15: add_token(n) for a name n that an earlier add_token(n) registered
\* returns the TokenID registered then and leaves the grammar as it was.
C15_AddTokenIdempotent ==
    [][\A g \in Built, name \in SymTokenNames :
          (/\ AddToken(g, name)
           /\ HasName(Tokens(grammars[g]), name)
           /\ ~ByName(Tokens(grammars[g]), name).is_implicit)
          => /\ last'.exc = "None"
             /\ last'.ret = ByName(Tokens(grammars[g]), name)
             /\ grammars' = grammars]_vars

\* add_token returned a token that is not the symbol registered last: the
\* call repeated an earlier one
C15_Witness ==
    /\ last.op = "add_token"
    /\ last.exc = "None"
    /\ last.ret.name = "Name"
    /\ Len(grammars[last.g].symbols) = 4
    /\ grammars[last.g].symbols[4] # last.ret

\* C16: add_parselet on a name that is a parselet already returns that
\* ParseletID when kind and result_type agree with it, and raises
\* GrammarError, the grammar unchanged, when the kind or the result_type
\* differs.
C16_AddParseletAgain ==
    [][\A g \in Built, name \in SymParseletNames, result \in SymResultTypes,
         kind \in SymKinds :
          (/\ AddParselet(g, name, result, kind)
           /\ HasName(Parselets(grammars[g]), name))
          => LET parser_id == ByName(Parselets(grammars[g]), name)
             IN  /\ grammars' = grammars
                 /\ IF parser_id.kind = kind /\ parser_id.result_type = result
                    THEN last'.exc = "None" /\ last'.ret = parser_id
                    ELSE last'.exc = "GrammarError"]_vars

\* add_parselet was refused for a name that is a parselet of the grammar
C16_Witness ==
    /\ last.op = "add_parselet"
    /\ last.exc = "GrammarError"
    /\ HasName(Parselets(grammars[last.g]), last.name)

\* the whole name matches [A-Z][a-zA-Z0-9]*
TokenNameFits(name) ==
    PrefixEnd(CharsOf(name), Upper, Upper \cup Lower \cup Digit, 0) = Len(CharsOf(name))

\* C17 as stated: add_token(name), is_implicit false, returns only for a name
\* that matches [A-Z][a-zA-Z0-9]* as a whole; for any other name and for the
\* name of a parselet it raises GrammarError and leaves the grammar as it was.
C17_TokenNameChecked ==
    [][\A g \in Built, name \in SymTokenNames :
          AddToken(g, name)
          => /\ last'.exc = "None" => TokenNameFits(name)
             /\ (~TokenNameFits(name) \/ HasName(Parselets(grammars[g]), name))
                => /\ last'.exc = "GrammarError"
                   /\ grammars' = grammars]_vars

(***************************************************************************)
(* Grammars with parsers.  RuleGrammar is built by the calls                *)
(*   add_implicit('f'); add_token('Name'); add_parselet('expr', kind,      *)
(*   object); add_parselet('atom', Packrat, object)                        *)
(* and AddRule is grammar.add_parser(parser_id, combinator, priority) for  *)
(* a combinator of one of the shapes below, built as the factories and the *)
(* tests of the tables build them.                                         *)
(***************************************************************************)
RuleGrammar(kind) ==
    LET g1 == add_token(add_implicit(NewGrammar, "f").g, "Name", FALSE).g
    IN  add_parselet(add_parselet(g1, "expr", "object", kind).g,
                     "atom", "object", "Packrat").g

\* the combinator of a shape: name is the parselet the rule is added to
RuleOf(g, name, shape, token) ==
    LET t == TokenRef(g, token)
        e == ParseletRef(g, name)
        a == ParseletRef(g, IF name = "atom" THEN "expr" ELSE "atom")
    IN  CASE shape = "token" -> t
          [] shape = "named" -> NamedCombinator(t, "value")
          [] shape = "prefix" -> SequenceCombinator(<<t, e>>)
          [] shape = "named_prefix" ->
                SequenceCombinator(<<NamedCombinator(t, "op"), e>>)
          [] shape = "postfix" -> SequenceCombinator(<<e, t, e>>)
          [] shape = "named_postfix" ->
                SequenceCombinator(<<NamedCombinator(e, "lhs"),
                                     NamedCombinator(t, "op"), e>>)
          [] shape = "optional" -> OptionalCombinator(t)
          [] shape = "parselet" -> a
          [] shape = "self" -> SequenceCombinator(<<e>>)
          [] shape = "self_self" -> SequenceCombinator(<<e, e>>)
          [] shape = "self_optional" ->
                SequenceCombinator(<<e, OptionalCombinator(t)>>)
          [] shape = "other_first" -> SequenceCombinator(<<a, t>>)
          [] shape = "repeat_first" -> SequenceCombinator(<<RepeatCombinator(t), t>>)
          [] shape = "named_sequence" ->
                NamedCombinator(SequenceCombinator(<<t, e>>), "value")

\* the most parselets AddRule registers in one table
MaxRules == 2

AddRule(g, name, shape, token, priority) ==
    /\ Building
    /\ HasName(Parselets(grammars[g]), name)
    /\ HasName(Tokens(grammars[g]), token)
    /\ LET parser_id == ByName(Parselets(grammars[g]), name)
           combinator == RuleOf(grammars[g], name, shape, token)
           r == add_parser(grammars[g], parser_id, combinator,
                           make_return_result(combinator), priority)
       IN  /\ Len(grammars[g].tables[parser_id.id].parselets) < MaxRules
           /\ grammars' = [grammars EXCEPT ![g] = r.g]
           /\ last' = Call("add_parser", g, 0, name, r)
    /\ UNCHANGED <<scan, dscan, parse>>

\* extend of a grammar whose tables hold no parser yet
ExtendFresh(self, other) ==
    /\ \A k \in DOMAIN grammars[self].tables :
          Len(grammars[self].tables[k].parselets) = 0
    /\ Extend(self, other)

InitRules ==
    /\ \E kind \in {"Pratt", "Packrat"} :
          grammars = [i \in GrammarIds |->
                         IF i = 2 THEN RuleGrammar(kind) ELSE NewGrammar]
    /\ last = NoCall
    /\ scan = NoScanner
    /\ dscan = NoScanner
    /\ parse = NoParse

\* the rules other receives: <<shape, token, priority>>
ExprRules ==
    {<<"token", "f", PRIORITY_MAX>>, <<"named", "Name", PRIORITY_MAX>>,
     <<"prefix", "f", PRIORITY_MAX>>, <<"postfix", "f", 600>>,
     <<"named_postfix", "f", PRIORITY_MAX>>}

NextExtendParsers ==
    \/ \E name \in {"Name", "Word"} : AddToken(1, name)
    \/ \E rule \in ExprRules : AddRule(2, "expr", rule[1], rule[2], rule[3])
    \/ AddRule(2, "atom", "parselet", "f", PRIORITY_MAX)
    \/ ExtendFresh(1, 2)

SpecExtendParsers == InitRules /\ [][NextExtendParsers]_vars

(***************************************************************************)
(* Properties of extend on grammars with parsers (SpecExtendParsers)       *)
(***************************************************************************)
\* q has the shape of p: the same classes, names and priorities in the same
\* places, and symbols of the same names
RECURSIVE SameShape(_, _)
SameShape(q, p) ==
    /\ q.kind = p.kind
    /\ CASE p.kind = "Token" -> q.token_id.name = p.token_id.name
         [] p.kind = "Parselet" ->
               /\ q.parser_id.name = p.parser_id.name
               /\ q.has_priority = p.has_priority
               /\ q.priority = p.priority
         [] IsSequenceCombinator(p) ->
               /\ Len(q.combinators) = Len(p.combinators)
               /\ \A i \in 1..Len(p.combinators) :
                     SameShape(q.combinators[i], p.combinators[i])
         [] p.kind = "Named" ->
               q.name = p.name /\ SameShape(q.combinator, p.combinator)
         [] OTHER -> SameShape(q.combinator, p.combinator)

\* every token and parselet c refers to is a symbol of g
RECURSIVE RefersOnlyTo(_, _)
RefersOnlyTo(c, g) ==
    CASE c.kind = "Token" -> \E i \in 1..Len(g.symbols) : g.symbols[i] = c.token_id
      [] c.kind = "Parselet" -> \E i \in 1..Len(g.symbols) : g.symbols[i] = c.parser_id
      [] IsSequenceCombinator(c) ->
            \A i \in 1..Len(c.combinators) : RefersOnlyTo(c.combinators[i], g)
      [] OTHER -> RefersOnlyTo(c.combinator, g)

ExtendedParsers == last.op = "extend" /\ last.exc = "None"

MaxSorted == 3
SortedRegexes == {RePlus({"f"}), RePlus({"o"})}
SortedPriorities == {PRIORITY_MAX, -1}
SortedLiterals == {"f", "fo"}

NextPatterns ==
    \/ \E g \in Built : AddToken(g, "Name")
    \/ \E regex \in SortedRegexes, priority \in SortedPriorities :
          \/ AddPattern(1, "Name", regex, priority, MaxExtPatterns)
          \/ AddPattern(2, "Name", regex, priority, MaxSorted)
    \/ AddImplicit(1, "f", MaxExtPatterns)
    \/ \E literal \in SortedLiterals : AddImplicit(2, literal, MaxSorted)
    \/ Extend(1, 2)

SpecPatterns == Init /\ [][NextPatterns]_vars

(***************************************************************************)
(* Properties of the pattern list (SpecPatterns)                           *)
(***************************************************************************)
AtPriority(patterns, priority) ==
    SelectSeq(patterns, LAMBDA p : p.priority = priority)

IsPrefix(a, b) == Len(a) <= Len(b) /\ SubSeq(b, 1, Len(a)) = a

\* what a pattern keeps when extend copies it into another grammar
Copied(patterns) ==
    [i \in 1..Len(patterns) |->
        <<patterns[i].token_id.name, patterns[i].pattern, patterns[i].priority,
          patterns[i].is_implicit>>]

\* a is b with some elements left out
RECURSIVE IsSubSequence(_, _)
IsSubSequence(a, b) ==
    IF a = <<>> THEN TRUE
    ELSE IF b = <<>> THEN FALSE
    ELSE IF Head(a) = Head(b) THEN IsSubSequence(Tail(a), Tail(b))
    ELSE IsSubSequence(a, Tail(b))

\* C18: every call leaves the pattern list sorted by priority in
\* non-decreasing order with patterns of equal priority in insertion order:
\* the patterns that were in the list keep their order and stand before the
\* inserted ones of their priority, and the patterns one extend inserts at a
\* priority stand in the order in which extend read them from other
C18_PatternsSortedStable ==
    [][\A g \in Built :
          LET old == grammars[g].patterns
              new == grammars'[g].patterns
          IN  /\ \A i \in 1..Len(new), j \in 1..Len(new) :
                    i < j => new[i].priority <= new[j].priority
              /\ \A i \in 1..Len(new) :
                    LET before == AtPriority(old, new[i].priority)
                        after == AtPriority(new, new[i].priority)
                    IN  /\ IsPrefix(before, after)
                        /\ (last'.op = "extend" /\ last'.g = g) =>
                              IsSubSequence(
                                  Copied(SubSeq(after, Len(before) + 1, Len(after))),
                                  Copied(AtPriority(grammars[last'.other].patterns,
                                                    new[i].priority)))]_vars

\* extend has inserted two patterns of one priority behind a pattern of
\* that priority, next to a pattern of another priority
C18_Witness ==
    /\ last.op = "extend" /\ last.exc = "None"
    /\ LET mine == grammars[last.g].patterns
           theirs == grammars[last.other].patterns
       IN  /\ Len(mine) > Len(theirs)
           /\ \E i \in 1..Len(mine) :
                 /\ Len(AtPriority(mine, mine[i].priority)) >= 3
                 /\ Len(AtPriority(theirs, mine[i].priority)) = 2
                 /\ AtPriority(theirs, mine[i].priority)[1]
                       # AtPriority(theirs, mine[i].priority)[2]
           /\ \E i \in 1..Len(mine) : mine[i].priority # mine[1].priority

(***************************************************************************)
(* SpecPratt: rules of every shape are registered in the tables of         *)
(* RuleGrammar, through grammar.add_parser and through the table's own     *)
(* add_parser, and the table's prefix_tokens is read in between.  No shape *)
(* is an empty SequenceCombinator: no factory of combinators.py makes one. *)
(***************************************************************************)
\* grammar.tables[parser_id].add_parser(combinator, action, priority, location)
TableAddRule(g, name, shape, token, priority) ==
    /\ Building
    /\ HasName(Parselets(grammars[g]), name)
    /\ HasName(Tokens(grammars[g]), token)
    /\ LET parser_id == ByName(Parselets(grammars[g]), name)
           combinator == RuleOf(grammars[g], name, shape, token)
           r == TableAddParser(grammars[g].tables[parser_id.id], combinator,
                               make_return_result(combinator), priority)
       IN  /\ Len(grammars[g].tables[parser_id.id].parselets) < MaxRules
           /\ grammars' = [grammars EXCEPT ![g].tables[parser_id.id] = r.table]
           /\ last' = [op |-> "table_add_parser", g |-> g, other |-> 0, name |-> name,
                       exc |-> r.exc, ret |-> NoSymbol]
    /\ UNCHANGED <<scan, dscan, parse>>

\* grammar.tables[parser_id].prefix_tokens, read on a Pratt table; the set
\* returned is kept in last.ret.elements
ReadPrefixTokens(g, name) ==
    /\ Building
    /\ HasName(Parselets(grammars[g]), name)
    /\ LET parser_id == ByName(Parselets(grammars[g]), name)
           r == GetPrefixTokens(grammars[g].tables[parser_id.id])
       IN  /\ parser_id.kind = "Pratt"
           /\ grammars' = [grammars EXCEPT ![g].tables[parser_id.id] = r.table]
           /\ last' = [op |-> "prefix_tokens", g |-> g, other |-> 0, name |-> name,
                       exc |-> "None", ret |-> [cls |-> "set", elements |-> r.ret]]
    /\ UNCHANGED <<scan, dscan, parse>>

\* the rules of the tests of the Pratt table and their variations:
\* <<shape, token, priority>>
PrattRules ==
    {<<"token", "f", PRIORITY_MAX>>, <<"token", "Name", PRIORITY_MAX>>,
     <<"named", "Name", PRIORITY_MAX>>, <<"prefix", "f", PRIORITY_MAX>>,
     <<"named_prefix", "f", 600>>, <<"postfix", "f", 600>>,
     <<"postfix", "Name", PRIORITY_MAX>>, <<"named_postfix", "f", PRIORITY_MAX>>,
     <<"optional", "f", PRIORITY_MAX>>, <<"parselet", "f", PRIORITY_MAX>>,
     <<"self", "f", PRIORITY_MAX>>, <<"self_self", "f", PRIORITY_MAX>>,
     <<"self_optional", "f", PRIORITY_MAX>>, <<"other_first", "f", PRIORITY_MAX>>,
     <<"repeat_first", "f", PRIORITY_MAX>>, <<"named_sequence", "f", PRIORITY_MAX>>}

NextPratt ==
    \/ \E rule \in PrattRules : TableAddRule(2, "expr", rule[1], rule[2], rule[3])
    \/ \E shape \in {"token", "optional"} : AddRule(2, "expr", shape, "Name", PRIORITY_MAX)
    \/ ReadPrefixTokens(2, "expr")

SpecPratt == InitRules /\ [][NextPratt]_vars

(***************************************************************************)
(* Properties of the Pratt table (SpecPratt)                               *)
(***************************************************************************)
\* the elements of a rule: those of a sequence, or the combinator alone
Elements(c) == IF IsSequenceCombinator(c) THEN c.combinators ELSE <<c>>

\* list holds a parselet of the given class made of the given parts
Holds(list, shape, elements, priority) ==
    \E i \in 1..Len(list) :
        /\ list[i].shape = shape
        /\ Elements(list[i].combinator) = elements
        /\ list[i].priority = priority

\* C19: add_parser on a Pratt table registers a prefix parselet under t
\* when the head of the rule, a Named unwrapped, is Token(t); registers a
\* postfix parselet under t when the head refers to the table's own parselet
\* and the second element, a Named unwrapped, is Token(t); and in every
\* other case raises GrammarError and leaves the parselet list, the prefix
\* map and the postfix map as they were
C19_PrattAddParser ==
    [][\A rule \in PrattRules :
          LET g == grammars[2]
              parser_id == ByName(Parselets(g), "expr")
              table == g.tables[parser_id.id]
              after == grammars'[2].tables[parser_id.id]
              elements == Elements(RuleOf(g, "expr", rule[1], rule[2]))
              head == Unnamed(elements[1])
              second == Unnamed(elements[IF Len(elements) > 1 THEN 2 ELSE 1])
          IN  (TableAddRule(2, "expr", rule[1], rule[2], rule[3]) /\ table.kind = "Pratt")
              => IF head.kind = "Token"
                 THEN /\ last'.exc = "None"
                      /\ Holds(DictGet(after.prefixes, head.token_id.id), "Prefix",
                               elements, rule[3])
                      /\ Holds(after.parselets, "Prefix", elements, rule[3])
                      /\ Len(DictGet(after.prefixes, head.token_id.id))
                            = Len(DictGet(table.prefixes, head.token_id.id)) + 1
                      /\ Len(after.parselets) = Len(table.parselets) + 1
                      /\ after.postfixes = table.postfixes
                 ELSE IF /\ head.kind = "Parselet"
                         /\ head.parser_id = parser_id
                         /\ Len(elements) > 1
                         /\ second.kind = "Token"
                 THEN /\ last'.exc = "None"
                      /\ Holds(DictGet(after.postfixes, second.token_id.id), "Postfix",
                               elements, rule[3])
                      /\ Holds(after.parselets, "Postfix", elements, rule[3])
                      /\ Len(DictGet(after.postfixes, second.token_id.id))
                            = Len(DictGet(table.postfixes, second.token_id.id)) + 1
                      /\ Len(after.parselets) = Len(table.parselets) + 1
                      /\ after.prefixes = table.prefixes
                 ELSE /\ last'.exc = "GrammarError"
                      /\ after.parselets = table.parselets
                      /\ after.prefixes = table.prefixes
                      /\ after.postfixes = table.postfixes]_vars

\* a Pratt table holding a postfix parselet has refused a rule
C19_Witness ==
    /\ last.op = "table_add_parser" /\ last.exc = "GrammarError"
    /\ LET table == grammars[2].tables[ByName(Parselets(grammars[2]), "expr").id]
       IN  /\ table.kind = "Pratt"
           /\ \E k \in DOMAIN table.postfixes : Len(table.postfixes[k]) = 1
           /\ Len(table.parselets) = 1

\* the tokens of g under which table holds a prefix parselet
PrefixKeys(g, table) ==
    {g.symbols[i] : i \in {j \in 1..Len(g.symbols) :
                              /\ g.symbols[j].cls = "TokenID"
                              /\ Len(DictGet(table.prefixes, g.symbols[j].id)) > 0}}

\* C20: whatever reads of prefix_tokens and add_parser calls came before,
\* a read of prefix_tokens returns the set of tokens that key a prefix
\* parselet, and a value kept in the cache is that set
C20_PrefixTokensCurrent ==
    \A n \in 1..Len(Parselets(grammars[2])) :
        LET parser_id == Parselets(grammars[2])[n]
            table == grammars[2].tables[parser_id.id]
        IN  /\ table.cache.has => table.cache.value = PrefixKeys(grammars[2], table)
            /\ (last.op = "prefix_tokens" /\ last.name = parser_id.name)
                  => last.ret.elements = PrefixKeys(grammars[2], table)

\* a read has returned and cached two tokens, each the key of a prefix
\* parselet of the table
C20_Witness ==
    /\ last.op = "prefix_tokens"
    /\ Cardinality(last.ret.elements) = 2
    /\ LET table == grammars[2].tables[ByName(Parselets(grammars[2]), last.name).id]
       IN  /\ table.cache.has
           /\ Len(table.parselets) = 2
           /\ \A i \in 1..2 : table.parselets[i].shape = "Prefix"

(***************************************************************************)
(* SpecSteps: texts are parsed one step of the innermost call at a time,   *)
(* by the parser and, beside it, by a reference parser whose parselet()    *)
(* keeps no memo and invokes the table on every call.                      *)
(*   grammars[1]  ExprGrammar                                              *)
(*   grammars[2]  ClimbGrammar: a Pratt parselet with two postfix rules of *)
(*                different priorities on one token, and a Packrat         *)
(*                parselet that asks for it at two priorities              *)
(*   grammars[3]  ComboGrammar: Packrat parselets with rules of different  *)
(*                and of equal priorities, an Optional and a Repeat        *)
(***************************************************************************)
\* a rule name := combinator at a priority, returning the result
RuleAt(g, name, combinator, priority) ==
    add_parser(g, ByName(Parselets(g), name), combinator,
               make_return_result(combinator), priority).g

\* expr := Number | "o" expr<650> | expr "f" <600> | expr "f" "o" <700>
\* stmt := expr "o" | expr<650> "f"
ClimbNames ==
    LET g1 == add_implicit(add_implicit(add_token(NewGrammar, "Number", FALSE).g,
                                        "f").g, "o").g
    IN  add_parselet(add_parselet(g1, "expr", "object", "Pratt").g,
                     "stmt", "object", "Packrat").g

ClimbPrefixes ==
    LET g3 == RuleAt(ClimbNames, "expr", TokenRef(ClimbNames, "Number"), PRIORITY_MAX)
    IN  RuleAt(g3, "expr",
               SequenceCombinator(<<TokenRef(ClimbNames, "o"),
                                    ParseletRefAt(ClimbNames, "expr", 650)>>),
               PRIORITY_MAX)

ClimbPostfixes ==
    LET e == ParseletRef(ClimbNames, "expr")
        f == TokenRef(ClimbNames, "f")
        o == TokenRef(ClimbNames, "o")
        g5 == RuleAt(ClimbPrefixes, "expr", SequenceCombinator(<<e, f, o>>), 700)
    IN  RuleAt(g5, "expr", SequenceCombinator(<<e, f>>), 600)

ClimbGrammar ==
    LET e == ParseletRef(ClimbNames, "expr")
        f == TokenRef(ClimbNames, "f")
        o == TokenRef(ClimbNames, "o")
        g7 == RuleAt(ClimbPostfixes, "stmt", SequenceCombinator(<<e, o>>), PRIORITY_MAX)
    IN  RuleAt(g7, "stmt",
               SequenceCombinator(<<ParseletRefAt(ClimbNames, "expr", 650), f>>),
               PRIORITY_MAX)

\* stmt := "f" "o" | "f" <600> | "f" "f" | "o" <600>, registered in this order
\* opt := [ "f" "o" ] "f"
\* rep := { "f" "o" } "f"
\* the names of ComboGrammar: the tokens 'f' and 'o', the parselets stmt,
\* opt and rep
ComboNames ==
    LET g1 == add_implicit(add_implicit(NewGrammar, "f").g, "o").g
    IN  add_parselet(add_parselet(add_parselet(g1, "stmt", "object", "Packrat").g,
                                  "opt", "object", "Packrat").g,
                     "rep", "object", "Packrat").g

\* the rules of stmt in the order they are registered
ComboStmtRules ==
    LET f == TokenRef(ComboNames, "f")
        o == TokenRef(ComboNames, "o")
    IN  <<[combinator |-> SequenceCombinator(<<f, o>>), priority |-> PRIORITY_MAX],
          [combinator |-> f, priority |-> 600],
          [combinator |-> SequenceCombinator(<<f, f>>), priority |-> PRIORITY_MAX],
          [combinator |-> o, priority |-> 600]>>

ComboStmt ==
    LET r == ComboStmtRules
        g3 == RuleAt(ComboNames, "stmt", r[1].combinator, r[1].priority)
        g4 == RuleAt(g3, "stmt", r[2].combinator, r[2].priority)
    IN  RuleAt(RuleAt(g4, "stmt", r[3].combinator, r[3].priority),
               "stmt", r[4].combinator, r[4].priority)

ComboGrammar ==
    LET f == TokenRef(ComboNames, "f")
        o == TokenRef(ComboNames, "o")
        g7 == RuleAt(ComboStmt, "opt",
                     SequenceCombinator(<<OptionalCombinator(SequenceCombinator(<<f, o>>)),
                                          f>>), PRIORITY_MAX)
    IN  RuleAt(g7, "rep",
               SequenceCombinator(<<RepeatCombinator(SequenceCombinator(<<f, o>>)), f>>),
               PRIORITY_MAX)

InitSteps ==
    /\ grammars = [i \in GrammarIds |->
                      IF i = 1 THEN ExprGrammar ELSE IF i = 2 THEN ClimbGrammar
                      ELSE ComboGrammar]
    /\ last = NoCall
    /\ scan = NoScanner
    /\ dscan = NoScanner
    /\ parse = NoParse

\* the reference for Parser.parselet: the table is invoked whatever the memo
\* holds
Parser_parselet_fresh(env, m, f) ==
    IF f.phase = "enter"
    THEN IF f.parser_id.id \notin DOMAIN env.g.tables
         THEN Return(m, Raise("KeyError", NoneV, m.st))
         ELSE Invoke(m, [f EXCEPT !.phase = "wait", !.pos = m.st.pos],
                     TableFrame(f.parser_id, f.priority))
    ELSE IF m.out.exc # "None" THEN Pass(m)
    ELSE Return(m, Ok(m.out.result, EmptyDict, m.out.error, m.st))

StepFresh(env, m) ==
    IF Top(m).k = "parselet" THEN Parser_parselet_fresh(env, m, Top(m)) ELSE Step(env, m)

\* a text is given to a parser and to the reference parser
StartSteps(gi, start, words) ==
    /\ parse.status = "none"
    /\ HasName(Parselets(grammars[gi]), start)
    /\ parse' = [status |-> "running", g |-> gi, start |-> start, words |-> words,
                 steps |-> 0,
                 m |-> NewMachine(ByName(Parselets(grammars[gi]), start)),
                 ref |-> NewMachine(ByName(Parselets(grammars[gi]), start))]
    /\ UNCHANGED <<grammars, last, scan, dscan>>

StepEnv == [g |-> grammars[parse.g], tokens |-> TokenStream(grammars[parse.g], parse.words)]

\* both parsers take one step, a parser that is through none
StepOne ==
    /\ parse.status = "running"
    /\ LET m == IF Len(parse.m.stack) = 0 THEN parse.m ELSE Step(StepEnv, parse.m)
           ref == IF Len(parse.ref.stack) = 0 THEN parse.ref
                  ELSE StepFresh(StepEnv, parse.ref)
       IN  parse' = [parse EXCEPT
                        !.m = m, !.ref = ref, !.steps = @ + 1,
                        !.status = IF \/ Len(m.stack) = 0 /\ Len(ref.stack) = 0
                                      \/ parse.steps + 1 >= MaxSteps
                                   THEN "done" ELSE "running"]
    /\ UNCHANGED <<grammars, last, scan, dscan>>

StepExprTexts == {<<"a">>, <<"1", "+", "a">>, <<"-", "1", "*", "2">>, <<"(", "1", ")", "a">>}
ClimbWords == {"1", "f", "o"}

NextSteps ==
    \/ \E words \in StepExprTexts : StartSteps(1, "expr", words)
    \/ \E start \in {"expr", "stmt"}, words \in WordsOver(ClimbWords) :
          StartSteps(2, start, words)
    \/ \E start \in {"stmt", "opt", "rep"}, words \in WordsOver(PackratWords) :
          StartSteps(3, start, words)
    \/ StepOne

SpecSteps == InitSteps /\ [][NextSteps]_vars

(***************************************************************************)
(* Properties of the parser, step by step (SpecSteps).  Entered(k, phase)  *)
(* says which call the parser is about to take a step of.                  *)
(***************************************************************************)
Entered(k, phase) ==
    /\ parse.status = "running"
    /\ Len(parse.m.stack) > 0
    /\ Top(parse.m).k = k
    /\ Top(parse.m).phase = phase

StepTable == grammars[parse.g].tables[Top(parse.m).parser_id.id]

StepToken == current_token(StepEnv, parse.m.st)

\* C21: a Pratt table invoked at a token that keys none of its prefix
\* parselets raises a ParserError whose actual token is that token's id and
\* whose expected tokens are exactly the tokens that key a prefix parselet
\* of the table, and leaves the cursor where it was
C21_NoPrefixError ==
    [][(/\ StepOne
        /\ Entered("table", "enter")
        /\ StepTable.kind = "Pratt"
        /\ DictGet(StepTable.prefixes, StepToken.id.id) = <<>>)
       => /\ parse'.m.out.exc = "ParserError"
          /\ parse'.m.out.error.actual_token = StepToken.id
          /\ parse'.m.out.error.location = StepToken.location
          /\ parse'.m.out.error.expected_tokens = PrefixKeys(grammars[parse.g], StepTable)
          /\ parse'.m.st.pos = parse.m.st.pos
          /\ Len(parse'.m.stack) = Len(parse.m.stack) - 1]_vars

\* the test's text 'a': the table of expr has just refused the Name, naming
\* the four tokens that can begin an expression
C21_Witness ==
    /\ parse.status = "running"
    /\ parse.g = 1 /\ parse.words = <<"a">>
    /\ parse.m.out.exc = "ParserError"
    /\ Len(parse.m.stack) > 0 /\ Top(parse.m).k = "parselet"
    /\ parse.m.out.error.actual_token.name = "Name"
    /\ {t.name : t \in parse.m.out.error.expected_tokens} = {"(", "+", "-", "Number"}
    /\ parse.m.st.pos = 0

\* the postfix parselets of the table keyed on the current token whose
\* priority is greater than the priority the table was invoked with
Climbing ==
    SelectSeq(DictGet(StepTable.postfixes, StepToken.id.id),
              LAMBDA p : p.priority > Top(parse.m).priority)

\* C25 as stated: each iteration of the loop of a Pratt table invoked at
\* priority P attempts exactly the postfix parselets keyed on the current
\* token whose priority is greater than P, in ascending priority order, and
\* the loop returns left without an attempt only when there is none
C25_PostfixCandidates ==
    [][(/\ StepOne
        /\ Entered("table", "prefix") \/ Entered("table", "postfix")
        /\ parse.m.out.exc = "None")
       => IF Climbing = <<>>
          THEN /\ Len(parse'.m.stack) = Len(parse.m.stack) - 1
               /\ parse'.m.out.exc = "None"
               /\ parse'.m.out.result = parse.m.out.result
          ELSE /\ Len(parse'.m.stack) = Len(parse.m.stack) + 1
               /\ Top(parse'.m).k = "choice"
               /\ Top(parse'.m).items = Climbing
               /\ \A i \in 1..Len(Climbing), j \in 1..Len(Climbing) :
                     i < j => Climbing[i].priority <= Climbing[j].priority]_vars

\* what a parse ended with: the exception, the value and the error
Ended(m) == [exc |-> m.out.exc, result |-> m.out.result, error |-> m.out.error]

\* C26 as stated: the memo of Parser.parselet, keyed by the position and the
\* parselet id alone, never changes the outcome of a parse: the parse ends
\* as the parse of the reference parser, which invokes the table with the
\* requested priority on every call
C26_MemoKeepsOutcome ==
    (parse.status = "done" /\ Len(parse.m.stack) = 0 /\ Len(parse.ref.stack) = 0)
        => Ended(parse.m) = Ended(parse.ref)

\* the parser is about to take a step of the Parser.choice of a Packrat
\* table: PackratTable.__call__ hands its parselets straight to choice, so
\* the call under it is the Parser.parselet that invoked the table
PackratChoice ==
    /\ parse.status = "running"
    /\ Len(parse.m.stack) > 1
    /\ Top(parse.m).k = "choice"
    /\ parse.m.stack[Len(parse.m.stack) - 1].k = "parselet"

ChoiceTable ==
    grammars[parse.g].tables[parse.m.stack[Len(parse.m.stack) - 1].parser_id.id]

\* the rules s in ascending priority order, those of one priority in the
\* order they have in s
RECURSIVE StableByPriority(_)
StableByPriority(s) ==
    IF s = <<>> THEN <<>>
    ELSE LET lo == CHOOSE p \in {s[i].priority : i \in 1..Len(s)} :
                       \A i \in 1..Len(s) : p <= s[i].priority
         IN  SelectSeq(s, LAMBDA r : r.priority = lo)
                 \o StableByPriority(SelectSeq(s, LAMBDA r : r.priority # lo))

RuleOfParselet(p) == [combinator |-> p.combinator, priority |-> p.priority]

\* C27: the choice of a Packrat table goes through the table's parselets in
\* ascending priority order, insertion order among equal priorities (for
\* stmt of ComboGrammar: the order of registration, sorted stably), invokes
\* one parselet at a time from the position it was entered at, returns the
\* result of the first parselet that succeeds and runs no later one, takes
\* the cursor back and merges the error when a parselet fails, and when all
\* have failed raises the merge of their errors with the cursor where it was
\* at entry
C27_PackratChoice ==
    [][(StepOne /\ PackratChoice)
       => LET m == parse.m
              f == Top(parse.m)
              n == Len(parse.m.stack)
              after == parse'.m
          IN  CASE f.phase = "enter" /\ f.i <= Len(f.items) ->
                      /\ Len(after.stack) = n + 1
                      /\ Top(after).k = "call"
                      /\ Top(after).ctx = f.items[f.i]
                      /\ after.stack[n].k = "choice" /\ after.stack[n].i = f.i
                      /\ after.stack[n].pos = m.st.pos
                      /\ after.st.pos = m.st.pos
                      /\ f.i > 1 => m.st.pos = f.pos
                      /\ f.i = 1 =>
                            /\ f.err = NoneV
                            /\ f.items = ChoiceTable.parselets
                            /\ \A i \in 1..Len(f.items), j \in 1..Len(f.items) :
                                  i < j => f.items[i].priority <= f.items[j].priority
                            /\ (parse.g = 3 /\ m.stack[n - 1].parser_id.name = "stmt")
                                  => [i \in 1..Len(f.items) |-> RuleOfParselet(f.items[i])]
                                         = StableByPriority(ComboStmtRules)
                [] f.phase = "enter" /\ f.i > Len(f.items) /\ f.i > 1 ->
                      /\ Len(after.stack) = n - 1
                      /\ after.out.exc = "ParserError"
                      /\ after.out.error = f.err
                      /\ after.st.pos = f.pos
                [] f.phase = "wait" /\ m.out.exc = "None" ->
                      /\ Len(after.stack) = n - 1
                      /\ after.out.exc = "None"
                      /\ after.out.result = m.out.result
                      /\ after.out.error = ErrorMerge(f.err, m.out.error)
                      /\ after.st.pos = m.st.pos
                [] f.phase = "wait" /\ m.out.exc = "ParserError" ->
                      /\ Len(after.stack) = n
                      /\ Top(after).k = "choice" /\ Top(after).phase = "enter"
                      /\ Top(after).i = f.i + 1
                      /\ Top(after).items = f.items
                      /\ Top(after).err = ErrorMerge(f.err, m.out.error)
                      /\ after.st.pos = f.pos
                [] OTHER -> TRUE]_vars

\* stmt := expr "o" | expr<650> "f" on the text '1 1': the first rule has
\* read the Number and failed at the second token, the second has failed
\* too, and the choice has raised the error of the second token with the
\* cursor back at the first
C27_Witness ==
    /\ parse.status = "running"
    /\ parse.g = 2 /\ parse.start = "stmt" /\ parse.words = <<"1", "1">>
    /\ Len(parse.m.stack) > 0 /\ Top(parse.m).k = "parselet"
    /\ Top(parse.m).parser_id.name = "stmt"
    /\ parse.m.out.exc = "ParserError"
    /\ parse.m.out.error.location = StepEnv.tokens[2].location
    /\ parse.m.st.pos = 0

\* the parser is about to hand the outcome of the nested combinator to a
\* combinator of the given kind
Resumed(kind) ==
    /\ Entered("combinator", "wait")
    /\ Top(parse.m).c.kind = kind

\* C28 as stated: when the combinator nested in an OptionalCombinator fails
\* with a ParserError, also after it has consumed tokens, the Optional does
\* not raise: it returns (None, {}, error) and leaves the cursor where it
\* was when the Optional started
C28_OptionalBacktracks ==
    [][(/\ StepOne
        /\ Resumed("Optional")
        /\ parse.m.out.exc = "ParserError")
       => /\ Len(parse'.m.stack) = Len(parse.m.stack) - 1
          /\ parse'.m.out.exc = "None"
          /\ parse'.m.out.result = NoneV
          /\ parse'.m.out.namespace = EmptyDict
          /\ parse'.m.out.error = parse.m.out.error
          /\ parse'.m.st.pos = Top(parse.m).pos]_vars

\* the texts (f o)* f of at most MaxTokens tokens
RepTexts ==
    {w \in WordsOver(PackratWords) :
        /\ Len(w) % 2 = 1
        /\ \A i \in 1..Len(w) : w[i] = IF i % 2 = 1 THEN "f" ELSE "o"}

\* C29: a RepeatCombinator never raises ParserError.  Each iteration that
\* succeeds adds its result to the items and the next one starts where it
\* ended; the first iteration that fails ends the loop, which returns the
\* tuple of the results so far with the cursor back where the last
\* successful iteration ended (where the Repeat started when there was
\* none).  So rep := Repeat("f" "o") "f" parses exactly the texts (f o)* f
C29_RepeatStops ==
    [][/\ (StepOne /\ Resumed("Repeat") /\ parse.m.out.exc = "ParserError")
          => /\ Len(parse'.m.stack) = Len(parse.m.stack) - 1
             /\ parse'.m.out.exc = "None"
             /\ parse'.m.out.result = TupleV(Top(parse.m).acc.items)
             /\ parse'.m.st.pos = Top(parse.m).pos
       /\ (StepOne /\ Resumed("Repeat") /\ parse.m.out.exc = "None")
          => /\ parse'.m.out.exc # "ParserError"
             /\ Len(parse'.m.stack) = Len(parse.m.stack) + 1
                  => LET f == parse'.m.stack[Len(parse.m.stack)]
                     IN  /\ f.acc.items = Append(Top(parse.m).acc.items,
                                                 parse.m.out.result)
                         /\ f.pos = parse.m.st.pos
                         /\ Top(parse'.m) = CombineFrame(Top(parse.m).c.combinator,
                                                         Top(parse.m).ctx)
       /\ (StepOne /\ parse.g = 3 /\ parse.start = "rep" /\ Len(parse'.m.stack) = 0)
          => (parse'.m.out.exc = "None" <=> parse.words \in RepTexts)]_vars

\* rep on the text 'f o f f': the second iteration has read 'f' and failed
\* at the last token; the Repeat has returned the one result it has, with
\* the cursor after the first 'f o'
C29_Witness ==
    /\ parse.status = "running"
    /\ parse.g = 3 /\ parse.start = "rep" /\ parse.words = <<"f", "o", "f", "f">>
    /\ Len(parse.m.stack) > 0 /\ Top(parse.m).k = "sequence"
    /\ Top(parse.m).i = 1
    /\ parse.m.out.exc = "None"
    /\ parse.m.out.result.type = "Tuple" /\ Len(parse.m.out.result.items) = 1
    /\ parse.m.out.error # NoneV
    /\ parse.m.out.error.location = StepEnv.tokens[4].location
    /\ parse.m.st.pos = 2

(***************************************************************************)
(* The types of the variables of a combinator (SpecShapes).  last.ret.c is *)
(* a combinator built from a token or a parselet of ExprGrammar by the     *)
(* constructors of combinators.py; ReadRepeatNamed reads the variables of  *)
(* Repeat(Named(n, c)).                                                    *)
(***************************************************************************)
\* the most constructors wrapped around a token or a parselet
MaxDepth == 3

ShapeNames == {"x", "y"}

ShapeLeaves ==
    {TokenRef(grammars[1], "Number"), TokenRef(grammars[1], "Name"),
     ParseletRef(grammars[1], "expr")}

Shape(op, name, c, depth, typ, vs) ==
    [op |-> op, g |-> 1, other |-> 0, name |-> name, exc |-> "None",
     ret |-> [cls |-> "combinator", c |-> c, depth |-> depth, result_type |-> typ,
              variables |-> vs]]

Shaping == last.op \in {"leaf", "wrap", "variables"}

ShapeLeaf ==
    /\ \E c \in ShapeLeaves : last' = Shape("leaf", "", c, 0, NoneV, EmptyDict)
    /\ UNCHANGED <<grammars, scan, dscan, parse>>

ShapeWrap ==
    /\ Shaping
    /\ last.ret.depth < MaxDepth
    /\ \E c \in {RepeatCombinator(last.ret.c), OptionalCombinator(last.ret.c)}
                  \cup {NamedCombinator(last.ret.c, n) : n \in ShapeNames}
                  \cup {SequenceCombinator(<<leaf, last.ret.c>>) : leaf \in ShapeLeaves} :
          last' = Shape("wrap", "", c, last.ret.depth + 1, NoneV, EmptyDict)
    /\ UNCHANGED <<grammars, scan, dscan, parse>>

\* c.result_type and RepeatCombinator(NamedCombinator(c, n)).variables
ReadRepeatNamed ==
    /\ Shaping
    /\ \E n \in ShapeNames :
          last' = Shape("variables", n, last.ret.c, last.ret.depth,
                        result_type(last.ret.c),
                        variables(RepeatCombinator(NamedCombinator(last.ret.c, n))))
    /\ UNCHANGED <<grammars, scan, dscan, parse>>

NextShapes == ShapeLeaf \/ ShapeWrap \/ ReadRepeatNamed

SpecShapes == InitSteps /\ [][NextShapes]_vars

\* C24 as stated: Repeat(Named(n, c)).variables gives n the type
\* Sequence[c.result_type] for every shape of c
C24_AsStated ==
    last.op = "variables"
        => last.ret.variables[last.name] = SequenceT(last.ret.result_type)

\* C24, amended: Repeat(Named(n, c)).variables gives n the type Sequence[T]
\* when c.result_type is Sequence[T] or Optional[T] (c is a Repeat or an
\* Optional, or ends in one), and Sequence[c.result_type] otherwise; n is
\* its only variable
C24_RepeatNamedType ==
    last.op = "variables"
        => /\ DOMAIN last.ret.variables = {last.name}
           /\ last.ret.variables[last.name] =
                 IF last.ret.result_type.t \in {"Sequence", "Optional"}
                 THEN SequenceT(last.ret.result_type.arg)
                 ELSE SequenceT(last.ret.result_type)

\* names: { { Number } }: the variable is a Sequence[SyntaxToken] and not a
\* sequence of sequences
C24_Witness ==
    /\ last.op = "variables"
    /\ last.ret.c = RepeatCombinator(TokenRef(grammars[1], "Number"))
    /\ last.ret.variables[last.name] = SequenceT(Scalar("SyntaxToken"))

(***************************************************************************)
(* Locations.  A Position is [line, column], a Location [begin, end] (the  *)
(* filename is the same for every token of a text and is left out); both   *)
(* are ordered as attr orders them, field by field.                        *)
(***************************************************************************)
Position(line, column) == [line |-> line, column |-> column]
Location(begin, end) == [begin |-> begin, end |-> end]

\* Location(filename)
NewLocation == Location(Position(1, 1), Position(1, 1))

Position_lt(a, b) == a.line < b.line \/ (a.line = b.line /\ a.column < b.column)
Location_lt(a, b) ==
    Position_lt(a.begin, b.begin) \/ (a.begin = b.begin /\ Position_lt(a.end, b.end))

Location_step(l) == Location(l.end, l.end)
Location_columns(l) == Location(l.begin, Position(l.end.line, l.end.column + 1))
Location_lines(l) == Location(l.begin, Position(l.end.line + 1, 1))

\* the loop of Scanner.__consume_location over value[:-1], from value[i] on
RECURSIVE ConsumeLocation(_, _, _)
ConsumeLocation(l, value, i) ==
    IF i >= Len(value) THEN l
    ELSE ConsumeLocation(IF value[i] = "\n" THEN Location_lines(l) ELSE Location_columns(l),
                         value, i + 1)

\* Scanner.__match and __consume_location on the locations: the location of
\* the token with this value, and self.location after it
ScannerLocate(sc, value) ==
    LET location == ConsumeLocation(Location_step(sc.location), value, 1)
    IN  [location |-> location,
         next |-> IF value[Len(value)] = "\n" THEN Location_lines(location)
                  ELSE Location_columns(location)]

\* one resumption of the generator Scanner.tokenize, with the locations
LocatedTokenize(g, sc) ==
    LET r == ScannerTokenize(g, sc)
        l == ScannerLocate(sc, r.token.value)
    IN  IF r.exc # "None" THEN r
        ELSE IF sc.position < sc.length
        THEN [sc |-> [r.sc EXCEPT !.location = l.next],
              token |-> TokenV(r.token.id, r.token.value, l.location), exc |-> "None"]
        ELSE [sc |-> r.sc, token |-> TokenV(r.token.id, r.token.value, sc.location),
              exc |-> "None"]

(***************************************************************************)
(* IndentationScanner.  Its state is the state of the Scanner it extends,  *)
(* the location, and the locals of its tokenize: indentations, is_new,     *)
(* whitespace and level.                                                   *)
(***************************************************************************)
\* IndentationScanner.__init__: the grammar after it, and the scanner
NewIndentationScanner(g, content) ==
    LET g1 == add_token(g, "NewLine", FALSE).g
        g2 == add_token(g1, "Whitespace", FALSE).g
        g3 == add_token(g2, "Indent", FALSE).g
        g4 == add_token(g3, "Dedend", FALSE).g
    IN  [g |-> g4,
         sc |-> [position |-> 0, buffer |-> content, length |-> Len(content),
                 location |-> NewLocation, out |-> <<>>, status |-> "running",
                 indentations |-> <<0>>, is_new |-> TRUE, whitespace |-> NoneV,
                 level |-> 0]]

newline_id(g) == ByName(Tokens(g), "NewLine")
whitespace_id(g) == ByName(Tokens(g), "Whitespace")
indent_id(g) == ByName(Tokens(g), "Indent")
dedent_id(g) == ByName(Tokens(g), "Dedend")

\* a dedent that overwrites the top of the stack with the new width
\* where the loop pops
PopIndentations_overwrite(indentations, indent, token_id, location) ==
    IF indentations[Len(indentations)] > indent
    THEN [indentations |-> [indentations EXCEPT ![Len(indentations)] = indent],
          yielded |-> <<TokenV(token_id, <<>>, location)>>]
    ELSE [indentations |-> indentations, yielded |-> <<>>]

\* while indentations[-1] > indent: yield SyntaxToken(token_id, '', location);
\* indentations.pop()
RECURSIVE PopIndentations(_, _, _, _)
PopIndentations(indentations, indent, token_id, location) ==
    IF indentations[Len(indentations)] > indent
    THEN LET rest == PopIndentations(SubSeq(indentations, 1, Len(indentations) - 1),
                                     indent, token_id, location)
         IN  [indentations |-> rest.indentations,
              yielded |-> <<TokenV(token_id, <<>>, location)>> \o rest.yielded]
    ELSE [indentations |-> indentations, yielded |-> <<>>]

\* the body of the loop of IndentationScanner.tokenize for one token of
\* super().tokenize(): the scanner after it, sc.out with what it yields
IndentationScanner_tokenize(g, sc, token) ==
    LET at_end == Location(token.location.end, token.location.end)
        at_begin == Location(token.location.begin, token.location.begin)
        indent == IF sc.whitespace # NoneV THEN Len(sc.whitespace.value) ELSE 0
        location == IF sc.whitespace # NoneV THEN sc.whitespace.location ELSE at_begin
        closing == PopIndentations(sc.indentations, 0, dedent_id(g), at_end)
        \* the else branch yields indent_id for every level it pops
        popping == PopIndentations(sc.indentations, indent, indent_id(g), location)
        level == IF SymbolIn(token.id, g.open_brackets) THEN sc.level + 1
                 ELSE IF SymbolIn(token.id, g.close_brackets) THEN sc.level - 1
                 ELSE sc.level
    IN  CASE SymbolEq(token.id, newline_id(g)) ->
                IF sc.level # 0 THEN sc
                ELSE [sc EXCEPT !.out = IF sc.is_new THEN @ ELSE Append(@, token),
                                !.is_new = TRUE]
          [] SymbolEq(token.id, whitespace_id(g)) ->
                IF sc.is_new THEN [sc EXCEPT !.whitespace = token] ELSE sc
          [] SymbolEq(token.id, eof_id(g)) ->
                [sc EXCEPT !.out = (IF sc.is_new THEN @
                                    ELSE Append(@, TokenV(newline_id(g), <<>>, at_end)))
                                   \o closing.yielded \o <<token>>,
                           !.indentations = closing.indentations]
          [] SymbolIn(token.id, g.trivia) -> sc
          [] OTHER ->
                IF ~sc.is_new
                THEN [sc EXCEPT !.level = level, !.out = Append(@, token)]
                ELSE IF sc.indentations[Len(sc.indentations)] < indent
                THEN [sc EXCEPT !.out = @ \o <<TokenV(indent_id(g), <<>>, location), token>>,
                                !.indentations = Append(@, indent),
                                !.whitespace = NoneV, !.is_new = FALSE, !.level = level]
                ELSE [sc EXCEPT !.out = @ \o popping.yielded \o <<token>>,
                                !.indentations = popping.indentations,
                                !.whitespace = NoneV, !.is_new = FALSE, !.level = level]

(***************************************************************************)
(* SpecIndent: an IndentationScanner reads a text of a grammar with        *)
(* NewLine, Whitespace, Name, a Comment that is trivia, and the brackets   *)
(* '(' and ')'.                                                            *)
(***************************************************************************)
\* the most characters of a text given to an IndentationScanner
MaxIndentContent == 4

IndentChars == {"\n", " ", "a", "(", ")", "#"}

IndentContents == UNION {[1..n -> IndentChars] : n \in 0..MaxIndentContent}

IndentNames ==
    LET g1 == add_token(NewGrammar, "NewLine", FALSE)
        g2 == add_pattern(g1.g, g1.ret, ReLit(<<"\n">>), PRIORITY_MAX, FALSE).g
        g3 == add_token(g2, "Whitespace", FALSE)
        g4 == add_pattern(g3.g, g3.ret, RePlus({" "}), PRIORITY_MAX, FALSE).g
        g5 == add_token(g4, "Name", FALSE)
    IN  add_pattern(g5.g, g5.ret, RePlus({"a"}), PRIORITY_MAX, FALSE).g

IndentGrammar ==
    LET g7 == add_token(IndentNames, "Comment", FALSE)
        g8 == add_trivia(add_pattern(g7.g, g7.ret, ReLit(<<"#">>), PRIORITY_MAX, FALSE).g,
                         g7.ret).g
        open == add_implicit(g8, "(")
        close == add_implicit(open.g, ")")
    IN  add_brackets(close.g, open.ret, close.ret).g

InitIndent ==
    /\ grammars = [i \in GrammarIds |-> IndentGrammar]
    /\ last = NoCall
    /\ scan = NoScanner
    /\ dscan = NoScanner
    /\ parse = NoParse

\* IndentationScanner(grammars[1], "<example>", content)
MakeIndentationScanner(content) ==
    /\ scan.status = "none"
    /\ LET new == NewIndentationScanner(grammars[1], content)
       IN  /\ scan' = new.sc
           /\ grammars' = [grammars EXCEPT ![1] = new.g]
    /\ UNCHANGED <<last, dscan, parse>>

\* one turn of the loop of IndentationScanner.tokenize over super().tokenize()
IndentationScannerNext ==
    /\ scan.status = "running"
    /\ LET r == LocatedTokenize(grammars[1], scan)
       IN  scan' = IF r.exc # "None" THEN r.sc
                   ELSE IndentationScanner_tokenize(grammars[1], r.sc, r.token)
    /\ UNCHANGED <<grammars, last, dscan, parse>>

NextIndent ==
    \/ \E content \in IndentContents : MakeIndentationScanner(content)
    \/ IndentationScannerNext

SpecIndent == InitIndent /\ [][NextIndent]_vars

\* the number of tokens of the stream with this id
CountOf(out, token_id) ==
    Cardinality({i \in 1..Len(out) : SymbolEq(out[i].id, token_id)})

HasDedent == HasName(Tokens(grammars[1]), "Dedend")

\* C23 as stated: every pop of the indentation stack emits a Dedent, so in
\* every prefix of the stream there are at most as many Dedent tokens as
\* Indent tokens, and in the complete stream there are as many
C23_DedentsMatchIndents ==
    (scan.status \in {"running", "done"} /\ HasDedent)
        => /\ \A k \in 0..Len(scan.out) :
                 CountOf(SubSeq(scan.out, 1, k), dedent_id(grammars[1]))
                    <= CountOf(SubSeq(scan.out, 1, k), indent_id(grammars[1]))
           /\ scan.status = "done"
                 => CountOf(scan.out, dedent_id(grammars[1]))
                       = CountOf(scan.out, indent_id(grammars[1]))

\* the token super().tokenize() hands to the loop next
NextToken == LocatedTokenize(grammars[1], scan).token

\* C30 as stated: a NewLine is dropped exactly when the bracket level is
\* greater than 0; when the level is not greater than 0, also after a
\* closing bracket with no opening one, a NewLine that is not at the start
\* of a line is emitted and the scanner is then at the start of a line
C30_NewLineUnlessBracketed ==
    [][(/\ IndentationScannerNext
        /\ scan.position < scan.length
        /\ SymbolEq(NextToken.id, newline_id(grammars[1])))
       => /\ scan.level > 0 => scan'.out = scan.out /\ scan'.is_new = scan.is_new
          /\ (scan.level <= 0 /\ ~scan.is_new)
                => scan'.out = Append(scan.out, NextToken) /\ scan'.is_new
          /\ (scan.level <= 0 /\ scan.is_new)
                => scan'.out = scan.out /\ scan'.is_new]_vars

(***************************************************************************)
(* SpecMerge: ParserError.merge on the errors a parser raises over the     *)
(* stream of an IndentationScanner.  ParserError_merge is the merge of     *)
(* ErrorMerge on the locations the scanner gives (ErrorMerge has a token's *)
(* index in the stream of a DefaultScanner for its location).              *)
(***************************************************************************)
ParserError_merge(lhs, rhs) ==
    IF lhs = NoneV THEN rhs
    ELSE IF rhs = NoneV THEN lhs
    ELSE IF Location_lt(lhs.location, rhs.location) THEN rhs
    ELSE IF lhs.location = rhs.location
    THEN ParserError(lhs.location, lhs.actual_token,
                     lhs.expected_tokens \cup rhs.expected_tokens)
    ELSE lhs

MergeTexts == {<<"a">>, <<"(", "a">>, <<" ", "a", "\n", "a">>}

\* the sets of expected tokens of the errors
MergeExpected ==
    {{ByName(Tokens(grammars[1]), "Name")}, {ByName(Tokens(grammars[1]), "NewLine")}}

\* Parser.error(indexes) with each token of the stream as the current token
StreamErrors ==
    {NoneV} \cup {ParserError(scan.out[i].location, scan.out[i].id, indexes) :
                     i \in 1..Len(scan.out), indexes \in MergeExpected}

\* ParserError.merge of three errors, both ways round
MergeErrors ==
    /\ scan.status = "done"
    /\ last.op = "none"
    /\ \E a \in StreamErrors, b \in StreamErrors, c \in StreamErrors :
          last' = [op |-> "merge", g |-> 1, other |-> 0, name |-> "", exc |-> "None",
                   ret |-> [cls |-> "merge", a |-> a, b |-> b, c |-> c,
                            ab |-> ParserError_merge(a, b),
                            ba |-> ParserError_merge(b, a),
                            ab_c |-> ParserError_merge(ParserError_merge(a, b), c),
                            a_bc |-> ParserError_merge(a, ParserError_merge(b, c))]]
    /\ UNCHANGED <<grammars, scan, dscan, parse>>

NextMerge ==
    \/ \E content \in MergeTexts : MakeIndentationScanner(content)
    \/ IndentationScannerNext
    \/ MergeErrors

SpecMerge == InitIndent /\ [][NextMerge]_vars

\* C22 as stated: ParserError.merge has None as its identity, is
\* associative, and is commutative when both errors have the same location;
\* the result has the later of the two locations, and when the locations
\* are equal its expected tokens are the union of both sets
C22_MergeLaws ==
    last.op = "merge"
        => LET r == last.ret
           IN  /\ ParserError_merge(NoneV, r.a) = r.a
               /\ ParserError_merge(r.a, NoneV) = r.a
               /\ r.ab_c = r.a_bc
               /\ (r.a # NoneV /\ r.b # NoneV)
                     => /\ r.a.location = r.b.location => r.ab = r.ba
                        /\ r.ab.location =
                              IF Location_lt(r.a.location, r.b.location)
                              THEN r.b.location ELSE r.a.location
                        /\ r.a.location = r.b.location
                              => r.ab.expected_tokens =
                                    r.a.expected_tokens \cup r.b.expected_tokens

(***************************************************************************)
(* Named left operands of postfix rules (SpecCapture).                     *)
(*   expr := value:Number                                                  *)
(*   expr := lhs:expr "+" rhs:expr<601>      <600>                         *)
(*   expr := items:expr "," items:expr<501>  <500>                         *)
(***************************************************************************)
CaptureNames ==
    LET g1 == add_implicit(add_implicit(add_token(NewGrammar, "Number", FALSE).g,
                                        "+").g, ",").g
    IN  add_parselet(g1, "expr", "object", "Pratt").g

CaptureSums == BinaryRule(NumberRule(CaptureNames), "+", 601, 600)

CaptureGrammar ==
    LET g == CaptureSums
    IN  add_parser(g, ByName(Parselets(g), "expr"),
            SequenceCombinator(<<NamedCombinator(ParseletRef(g, "expr"), "items"),
                                 TokenRef(g, ","),
                                 NamedCombinator(ParseletRefAt(g, "expr", 501), "items")>>),
            make_call(Functor("items", ""), Scalar("object")), 500).g

InitCapture ==
    /\ grammars = [i \in GrammarIds |-> CaptureGrammar]
    /\ last = NoCall
    /\ scan = NoScanner
    /\ dscan = NoScanner
    /\ parse = NoParse

CaptureWords == {"1", "2", "+", ","}

NextCapture ==
    \/ \E words \in WordsOver(CaptureWords) : StartSteps(1, "expr", words)
    \/ StepOne

SpecCapture == InitCapture /\ [][NextCapture]_vars

\* the postfix parselet at the top of the stack has evaluated the rest of
\* its rule and is about to call its action
PostfixEvaluated ==
    /\ Entered("call", "wait")
    /\ Top(parse.m).ctx.shape = "Postfix"
    /\ Top(parse.m).ctx.combinator.combinators[1].kind = "Named"
    /\ parse.m.out.exc = "None"

\* the left operand under its name, joined in front of what the rest of the
\* rule captured
LeftFirst(p, left, namespace) ==
    NamespaceJoin(make_namespace(p.combinator.combinators[1], p, left), namespace).namespace

\* C31: when a postfix rule whose left operand is named succeeds, its action
\* is called with the left operand under that name together with every
\* value the rest of the rule captured; under a name the rest of the rule
\* shares with the left operand the action receives the left operand
\* followed by the later captures
C31_LeftOperandNamed ==
    [][(StepOne /\ PostfixEvaluated)
       => LET f == Top(parse.m)
              given == merge_namespace(f.ctx, LeftFirst(f.ctx, f.left, parse.m.out.namespace))
          IN  /\ parse'.m.out.exc = "None"
              /\ parse'.m.out.result =
                    ApplyAction(f.ctx.action, parse.m.out.result, given.namespace).value]_vars

(***************************************************************************)
(* The parser with its history (SpecTraced).  The parser runs step by      *)
(* step; last.ret.elements collects every ParserError that Parser.error    *)
(* has made since the parse began, last.ret.ends the position at which     *)
(* each memoised invocation of Parser.parselet ended.                      *)
(***************************************************************************)
\* the ParserErrors the next step of m makes by a call of Parser.error: in
\* Parser.consume at a token that is not the one asked for (for a
\* TokenCombinator, and for <EOF> at the end of Parser.parse) and in
\* PrattTable.__call__ at a token that keys no prefix parselet
NewErrors(env, m) ==
    LET f == Top(m)
        token_id == current_token(env, m.st).id
    IN  IF f.k = "combinator" /\ f.phase = "enter" /\ f.c.kind = "Token"
        THEN IF SymbolEq(token_id, f.c.token_id) THEN {}
             ELSE {Parser_error(env, m.st, {f.c.token_id})}
        ELSE IF /\ f.k = "table" /\ f.phase = "enter"
                /\ env.g.tables[f.parser_id.id].kind = "Pratt"
                /\ DictGet(env.g.tables[f.parser_id.id].prefixes, token_id.id) = <<>>
        THEN {Parser_error(env, m.st, prefix_tokens(env.g.tables[f.parser_id.id]))}
        ELSE IF /\ f.k = "parse" /\ f.phase = "wait" /\ m.out.exc = "None"
                /\ ~SymbolEq(token_id, eof_id(env.g))
        THEN {Parser_error(env, m.st, {eof_id(env.g)})}
        ELSE {}

\* the end positions of the invocations of Parser.parselet that have
\* returned and stored their result in the memo, by the key of the memo; the
\* next step of m adds one when it is such a return
NewEnds(ends, m) ==
    LET f == Top(m)
        key == <<f.pos, f.parser_id.id>>
    IN  IF f.k = "parselet" /\ f.phase = "wait" /\ m.out.exc = "None"
        THEN [k \in DOMAIN ends \cup {key} |-> IF k = key THEN m.st.pos ELSE ends[k]]
        ELSE ends

\* the parser takes one step
StepTraced ==
    /\ parse.status = "running"
    /\ LET m == Step(StepEnv, parse.m)
           made == IF last.op = "errors" THEN last.ret.elements ELSE {}
           ends == IF last.op = "errors" THEN last.ret.ends ELSE <<>>
       IN  /\ parse' = [parse EXCEPT
                           !.m = m, !.steps = @ + 1,
                           !.status = IF Len(m.stack) = 0 \/ parse.steps + 1 >= MaxSteps
                                      THEN "done" ELSE "running"]
           /\ last' = [last EXCEPT
                          !.op = "errors",
                          !.ret = [cls |-> "set",
                                   elements |-> made \cup NewErrors(StepEnv, parse.m),
                                   ends |-> NewEnds(ends, parse.m)]]
    /\ UNCHANGED <<grammars, scan, dscan>>

\* stmt := "o" | "f" [ "o" ] "f" "o" | "f" { "o" } "f" "f"
AltNames ==
    add_parselet(add_implicit(add_implicit(NewGrammar, "f").g, "o").g,
                 "stmt", "object", "Packrat").g

AltGrammar ==
    LET f == TokenRef(AltNames, "f")
        o == TokenRef(AltNames, "o")
        g1 == RuleAt(AltNames, "stmt", o, PRIORITY_MAX)
        g2 == RuleAt(g1, "stmt",
                     SequenceCombinator(<<f, OptionalCombinator(o), f, o>>), PRIORITY_MAX)
    IN  RuleAt(g2, "stmt",
               SequenceCombinator(<<f, RepeatCombinator(o), f, f>>), PRIORITY_MAX)

InitTraced ==
    /\ grammars = [i \in GrammarIds |->
                      IF i = 1 THEN ClimbGrammar ELSE IF i = 2 THEN ComboGrammar
                      ELSE AltGrammar]
    /\ last = NoCall
    /\ scan = NoScanner
    /\ dscan = NoScanner
    /\ parse = NoParse

NextTraced ==
    \/ \E start \in {"expr", "stmt"}, words \in WordsOver(ClimbWords) :
          StartSteps(1, start, words)
    \/ \E start \in {"stmt", "opt", "rep"}, words \in WordsOver(PackratWords) :
          StartSteps(2, start, words)
    \/ \E words \in WordsOver(PackratWords) : StartSteps(3, "stmt", words)
    \/ StepTraced

SpecTraced == InitTraced /\ [][NextTraced]_vars

\* Parser.parse has raised a ParserError
ParseRaised ==
    /\ parse.status = "done"
    /\ Len(parse.m.stack) = 0
    /\ parse.m.out.exc = "ParserError"
    /\ last.op = "errors"

\* C32: the ParserError that Parser.parse raises is at the greatest location
\* of all ParserErrors made during the parse, and its expected tokens are
\* the union of the expected tokens of the errors made at that location
C32_GreatestError ==
    ParseRaised
        => LET made == last.ret.elements
               error == parse.m.out.error
           IN  /\ \A x \in made : x.location <= error.location
               /\ \E x \in made : x.location = error.location
               /\ error.expected_tokens =
                     UNION {x.expected_tokens : x \in {y \in made : y.location = error.location}}

\* a parse has raised after errors at an earlier token and after two errors
\* with different expected tokens at the token of the error raised
C32_Witness ==
    /\ ParseRaised
    /\ \E x \in last.ret.elements : x.location < parse.m.out.error.location
    /\ \E x, y \in last.ret.elements :
          /\ x.location = parse.m.out.error.location
          /\ y.location = parse.m.out.error.location
          /\ x.expected_tokens # y.expected_tokens

(***************************************************************************)
(* The cursor and the token buffer (SpecSteps).                            *)
(***************************************************************************)
\* C33: once Parser.parse has put the first token into the buffer, the
\* cursor is at a token of the buffer (0 <= pos < len(tokens)), the buffer
\* never shrinks, the cursor is never moved past <EOF> and no token is
\* asked of the scanner after <EOF>: the buffer never grows beyond the
\* tokens up to <EOF>
C33_CursorInBuffer ==
    [][(StepOne /\ parse.m.st.buffered >= 1)
       => /\ parse'.m.st.buffered >= parse.m.st.buffered
          /\ parse'.m.st.pos >= 0
          /\ parse'.m.st.pos < parse'.m.st.buffered
          /\ parse'.m.st.buffered <= Len(parse.words) + 1
          /\ parse'.m.st.pos <= Len(parse.words)]_vars

\* <EOF> is in the buffer and the cursor has been put back to the first of
\* at least two tokens before it
C33_Witness ==
    /\ parse.status = "running"
    /\ Len(parse.words) >= 2
    /\ parse.m.st.buffered = Len(parse.words) + 1
    /\ parse.m.st.pos = 0

\* Parser.parselet is about to be served from the memo
MemoHit ==
    /\ Entered("parselet", "enter")
    /\ MemoKey(parse.m.st, Top(parse.m).parser_id) \in DOMAIN parse.m.st.memory

\* C34: an invocation of Parser.parselet at a position where the parselet
\* has succeeded before returns the value of the first invocation and
\* leaves the cursor where the first invocation left it
C34_MemoHitConsumes ==
    [][(StepTraced /\ MemoHit)
       => LET key == MemoKey(parse.m.st, Top(parse.m).parser_id)
          IN  /\ parse'.m.out.exc = "None"
              /\ parse'.m.out.result = parse.m.st.memory[key].result
              /\ parse'.m.st.pos = last.ret.ends[key]]_vars

(***************************************************************************)
(* Termination of RepeatCombinator (SpecLoop).  The parser runs step by    *)
(* step for at most MaxLoopSteps steps, more than any parse of the texts   *)
(* that returns or raises takes; a running parser always takes its next    *)
(* step (weak fairness of StepLoop).                                       *)
(*   rep  := { "f" "o" } "f"                                               *)
(*   star := { [ "o" ] } "f"                                               *)
(*   nest := { { "o" } } "f"                                               *)
(*   ends := { <EOF> } "f"                                                 *)
(***************************************************************************)
MaxLoopSteps == 120

LoopNames ==
    LET g1 == add_implicit(add_implicit(NewGrammar, "f").g, "o").g
        g2 == add_parselet(add_parselet(g1, "rep", "object", "Packrat").g,
                           "star", "object", "Packrat").g
    IN  add_parselet(add_parselet(g2, "nest", "object", "Packrat").g,
                     "ends", "object", "Packrat").g

LoopRepeats ==
    LET f == TokenRef(LoopNames, "f")
        o == TokenRef(LoopNames, "o")
        g1 == RuleAt(LoopNames, "rep",
                     SequenceCombinator(<<RepeatCombinator(SequenceCombinator(<<f, o>>)), f>>),
                     PRIORITY_MAX)
    IN  RuleAt(g1, "star",
               SequenceCombinator(<<RepeatCombinator(OptionalCombinator(o)), f>>),
               PRIORITY_MAX)

LoopGrammar ==
    LET f == TokenRef(LoopNames, "f")
        o == TokenRef(LoopNames, "o")
        g3 == RuleAt(LoopRepeats, "nest",
                     SequenceCombinator(<<RepeatCombinator(RepeatCombinator(o)), f>>),
                     PRIORITY_MAX)
    IN  RuleAt(g3, "ends",
               SequenceCombinator(<<RepeatCombinator(TokenCombinator(eof_id(LoopNames))), f>>),
               PRIORITY_MAX)

InitLoop ==
    /\ grammars = [i \in GrammarIds |-> LoopGrammar]
    /\ last = NoCall
    /\ scan = NoScanner
    /\ dscan = NoScanner
    /\ parse = NoParse

\* the parser takes one step
StepLoop ==
    /\ parse.status = "running"
    /\ LET m == Step(StepEnv, parse.m)
       IN  parse' = [parse EXCEPT
                        !.m = m, !.steps = @ + 1,
                        !.status = IF Len(m.stack) = 0 \/ parse.steps + 1 >= MaxLoopSteps
                                   THEN "done" ELSE "running"]
    /\ UNCHANGED <<grammars, last, scan, dscan>>

NextLoop ==
    \/ \E start \in {"rep", "star", "nest", "ends"}, words \in WordsOver(PackratWords) :
          StartSteps(1, start, words)
    \/ StepLoop

SpecLoop == InitLoop /\ [][NextLoop]_vars /\ WF_vars(StepLoop)

PatternsOf(g, literal) ==
    {i \in 1..Len(g.patterns) : g.patterns[i].token_id.name = literal}

\* C36: whatever calls came before, also calls with the same literal, after
\* add_implicit(literal) the pattern list holds exactly one pattern for the
\* literal, and a call with a literal that is registered returns the TokenID
\* registered for it
C36_OnePatternPerLiteral ==
    [][\A literal \in ScanLiterals :
          AddImplicit(1, literal, MaxPatterns)
          => /\ last'.exc = "None"
             /\ HasName(Tokens(grammars[1]), literal)
                   => last'.ret = ByName(Tokens(grammars[1]), literal)
             /\ Cardinality(PatternsOf(grammars'[1], literal)) = 1]_vars

(***************************************************************************)
(* Indentation widths (SpecDeep): an IndentationScanner reads the texts    *)
(* of up to MaxDeepContent characters made of new lines, blanks and 'a'.   *)
(***************************************************************************)
MaxDeepContent == 6

DeepChars == {"\n", " ", "a"}

DeepContents == UNION {[1..n -> DeepChars] : n \in 0..MaxDeepContent}

NextDeep ==
    \/ \E content \in DeepContents : MakeIndentationScanner(content)
    \/ IndentationScannerNext

SpecDeep == InitIndent /\ [][NextDeep]_vars

\* the index in the buffer of the first character of the line that the
\* character at position (counted from 0) is on
LineStart(buffer, position) ==
    LET breaks == {i \in 1..position : buffer[i] = "\n"}
    IN  IF breaks = {} THEN 1 ELSE 1 + CHOOSE i \in breaks : \A j \in breaks : j <= i

\* the number of blanks at the start of that line
LineWidth(buffer, position) ==
    LET start == LineStart(buffer, position)
    IN  CHOOSE n \in 0..Len(buffer) :
            /\ \A j \in 0..(n - 1) : start + j <= Len(buffer) /\ buffer[start + j] = " "
            /\ start + n > Len(buffer) \/ buffer[start + n] # " "

\* the loop is about to handle the first significant token of a line
FirstOfLine ==
    /\ scan.status = "running"
    /\ HasDedent
    /\ scan.position < scan.length
    /\ LocatedTokenize(grammars[1], scan).exc = "None"
    /\ scan.is_new
    /\ ~SymbolEq(NextToken.id, newline_id(grammars[1]))
    /\ ~SymbolEq(NextToken.id, whitespace_id(grammars[1]))
    /\ ~SymbolEq(NextToken.id, eof_id(grammars[1]))
    /\ ~SymbolIn(NextToken.id, grammars[1].trivia)

\* the width the loop takes for the line: len(whitespace.value), or 0
UsedIndent == IF scan.whitespace # NoneV THEN Len(scan.whitespace.value) ELSE 0

\* C37: the width used for the first significant token of a line is the
\* length of the whitespace at the start of that line, 0 when the line
\* starts with the token, whatever whitespace earlier lines held
C37_OwnLineWidth ==
    FirstOfLine => UsedIndent = LineWidth(scan.buffer, scan.position)

\* C38: the indentation stack is never empty, its bottom entry is 0 and its
\* entries increase strictly from bottom to top
C38_StackIncreases ==
    (scan.status \in {"running", "done"} /\ HasDedent)
        => /\ Len(scan.indentations) >= 1
           /\ scan.indentations[1] = 0
           /\ \A i \in 1..(Len(scan.indentations) - 1) :
                 scan.indentations[i] < scan.indentations[i + 1]

\* ' a' and then '  a' on the next line: two widths are on the stack above
\* the 0
C38_Witness ==
    /\ scan.status = "running"
    /\ HasDedent
    /\ Len(scan.indentations) = 3

\* C39: when the first significant token of a line has been handled, the
\* top of the indentation stack is the width of that line (here for the
\* lines whose own whitespace the loop has taken for the width)
C39_TopIsLineWidth ==
    [][(/\ IndentationScannerNext
        /\ FirstOfLine
        /\ UsedIndent = LineWidth(scan.buffer, scan.position))
       => scan'.indentations[Len(scan'.indentations)]
             = LineWidth(scan.buffer, scan.position)]_vars

====
